---- MODULE Spec2Model ----
(***************************************************************************)
(* Assessment and progression engine of THE SYSTEM.                        *)
(*                                                                         *)
(* Three specifications share the variables of this module:                *)
(*   SpecGrade - the pure grading functions of the assessment engine       *)
(*               (evaluateQuiz, evaluateAssessment, calculateGrade)        *)
(*               applied to inputs drawn in InitGrade;                     *)
(*   SpecRetry - checkRetryEligibility over a clock and an attempt history;*)
(*   Spec      - the database tables and the request handlers that write   *)
(*               them (quiz submission, weak-area ledger, term gate).      *)
(*                                                                         *)
(* Scores are kept in hundredths of a percent (80.00 is 8000), which is    *)
(* the precision Math.round(x * 10000) / 100 produces.  Timestamps are     *)
(* hours since an arbitrary epoch.  A nullable value is NULL, and an       *)
(* optional record is a sequence of length 0 or 1.                         *)
(***************************************************************************)
EXTENDS Integers, Sequences, FiniteSets, TLC

VARIABLES
    \* ---- inputs and outputs of the grading functions (SpecGrade) ----
    questions,          \* Question[]
    correctAnswers,     \* Map question id -> Answer
    allAnswers,         \* Map answer id -> Answer
    submission,         \* QuizSubmission / AssessmentSubmission
    assessmentType,     \* AssessmentType
    quizResult,         \* <<>> or <<QuizResult>>
    assessmentResult,   \* <<>> or <<AssessmentResult>>
    scoreIn,            \* argument of calculateGrade
    gradeOut,           \* <<>> or <<GradeLetter>>
    \* ---- retry eligibility (SpecRetry) ----
    now,                \* Date.now(), in hours
    previousAttempts,   \* AssessmentAttempt[]
    retryResult,        \* <<>> or <<{canRetry, nextRetryAt}>>
    \* ---- persisted tables and handler output (Spec) ----
    quiz_attempts,      \* rows of public.quiz_attempts
    progress,           \* rows of public.progress
    weak_areas,         \* rows of public.weak_areas
    assessment_attempts,\* rows of public.assessment_attempts
    termExams,          \* orders of the terms that have a term_exam assessment
    ledgerLog,          \* history: the calls updateWeakAreas(userId, incorrectConcepts)
    response,           \* the 200 response bodies sent, each under the id of its attempt
    \* ---- tables no modelled handler but the webhook writes ----
    lessons,            \* rows of public.lessons
    moduleExams,        \* numbers of the modules that have a module_exam assessment
    yearReviews,        \* orders of the years that have a cumulative_review assessment
    transcript_entries, \* rows of public.transcript_entries
    subscriptions,      \* rows of public.subscriptions
    \* ---- calls of the access checks (SpecAccess) ----
    accessResult,       \* <<>> or <<the call and what it returned>>
    \* ---- computeGPA (SpecGPA) ----
    gpaEntries,         \* GradeEntry[]
    gpaOut,             \* <<>> or <<number | null>>
    \* ---- submissions handled step by step (SpecSteps) ----
    inflight            \* per request: where its handler stands, and its locals

gradeVars == <<questions, correctAnswers, allAnswers, submission, assessmentType,
               quizResult, assessmentResult, scoreIn, gradeOut>>
retryVars == <<now, previousAttempts, retryResult>>
ambientVars == <<lessons, moduleExams, yearReviews, transcript_entries, subscriptions>>
dbVars    == <<quiz_attempts, progress, weak_areas, assessment_attempts,
               termExams, ledgerLog, response, ambientVars>>
auxVars   == <<accessResult, gpaEntries, gpaOut, inflight>>
vars      == <<gradeVars, retryVars, dbVars, auxVars>>

NULL == "NULL"

\* ---------------------------------------------------------------------------
\* Bounds of the model
\* ---------------------------------------------------------------------------
MaxRichQuestions == 3   \* question lists with free per-question inputs
MaxQuestions == 10      \* question lists answered "first c right, rest wrong"
MaxDays == 15           \* the clock runs over days 0..MaxDays
MaxHistory == 3         \* length of an attempt history
MaxRequests == 3        \* requests handled in one behaviour of Spec
MaxTerm == 2            \* the seeded terms have orders 1..MaxTerm
MaxSubDays == 2         \* the clock of SpecSub runs over days 0..MaxSubDays
MaxGpaEntries == 3      \* length of the entry list given to computeGPA

\* ---------------------------------------------------------------------------
\* Generic helpers (JavaScript / Supabase primitives)
\* ---------------------------------------------------------------------------
\* Map.prototype.get
MapGet(m, k) == IF k \in DOMAIN m THEN <<m[k]>> ELSE <<>>

\* JavaScript truthiness of a nullable string
Truthy(s) == s # NULL /\ s # ""

\* Array.prototype.find on submission.answers by question id: first match
FindAnswer(answers, qid) ==
    LET hits == {i \in 1..Len(answers) : answers[i].question_id = qid}
    IN  IF hits = {} THEN <<>>
        ELSE <<answers[CHOOSE i \in hits : \A j \in hits : i <= j]>>

\* Math.round(num / den * 10000): round half up, on non-negative rationals
MathRound(num, den) == (2 * num + den) \div (2 * den)

\* ---------------------------------------------------------------------------
\* Assessment engine: thresholds and grade table
\* ---------------------------------------------------------------------------
AssessmentTypes == {"lesson_check", "module_exam", "term_exam", "cumulative_review"}

PASS_THRESHOLD == 80

ASSESSMENT_THRESHOLDS ==
    [t \in AssessmentTypes |->
        CASE t = "lesson_check" -> 80
          [] t = "module_exam" -> 75
          [] t = "term_exam" -> 70
          [] t = "cumulative_review" -> 70]

COOLDOWN_HOURS ==
    [t \in AssessmentTypes |->
        CASE t = "lesson_check" -> 0
          [] t = "module_exam" -> 24
          [] t = "term_exam" -> 48
          [] t = "cumulative_review" -> 24]

MAX_ATTEMPTS ==
    [t \in AssessmentTypes |->
        CASE t = "lesson_check" -> [count |-> 3, period_days |-> 1]
          [] t = "module_exam" -> [count |-> 3, period_days |-> 7]
          [] t = "term_exam" -> [count |-> 2, period_days |-> 14]
          [] t = "cumulative_review" -> [count |-> 3, period_days |-> 7]]

\* calculateGrade with the A boundary excluded (score > 90)
calculateGrade_StrictA(score) ==
    IF score > 90 * 100 THEN "A"
    ELSE IF score >= 80 * 100 THEN "B"
    ELSE IF score >= 70 * 100 THEN "C"
    ELSE IF score >= 60 * 100 THEN "D"
    ELSE "F"

\* score is in hundredths of a percent
calculateGrade(score) ==
    IF score >= 90 * 100 THEN "A"
    ELSE IF score >= 80 * 100 THEN "B"
    ELSE IF score >= 70 * 100 THEN "C"
    ELSE IF score >= 60 * 100 THEN "D"
    ELSE "F"

\* getPassThreshold ignoring the tier (the lesson-check threshold for all)
getPassThreshold_LessonOnly(type) == PASS_THRESHOLD

getPassThreshold(type) == ASSESSMENT_THRESHOLDS[type]

\* ---------------------------------------------------------------------------
\* Retry eligibility (hours instead of milliseconds)
\* ---------------------------------------------------------------------------
\* The reductions without their callback: the initial value is returned
OldestOf_InitialValue(attempts, i, oldest) == oldest

LatestOf_InitialValue(attempts, i, latest) == latest

\* Array.prototype.reduce with the "strictly older wins" callback
RECURSIVE OldestOf(_, _, _)
OldestOf(attempts, i, oldest) ==
    IF i > Len(attempts) THEN oldest
    ELSE OldestOf(attempts, i + 1,
                  IF attempts[i].created_at < oldest.created_at
                  THEN attempts[i] ELSE oldest)

\* Array.prototype.reduce with the "strictly later wins" callback
RECURSIVE LatestOf(_, _, _)
LatestOf(attempts, i, latest) ==
    IF i > Len(attempts) THEN latest
    ELSE LatestOf(attempts, i + 1,
                  IF attempts[i].created_at > latest.created_at
                  THEN attempts[i] ELSE latest)

\* checkRetryEligibility that takes the first attempt supplied for the most
\* recent one, as if the history came sorted latest first
checkRetryEligibility_AssumesSorted(type, attempts, clock) ==
    LET limits == MAX_ATTEMPTS[type]
        cooldown == COOLDOWN_HOURS[type]
        periodStart == clock - limits.period_days * 24
        InPeriod(a) == a.created_at >= periodStart
        recentAttempts == SelectSeq(attempts, InPeriod)
    IN  IF Len(recentAttempts) >= limits.count
        THEN LET oldestInPeriod == OldestOf(recentAttempts, 1, recentAttempts[1])
                 periodEnd == oldestInPeriod.created_at + limits.period_days * 24
             IN  [canRetry |-> FALSE, nextRetryAt |-> <<periodEnd>>]
        ELSE IF Len(attempts) > 0 /\ cooldown > 0
        THEN LET mostRecent == attempts[1]
                 cooldownEnd == mostRecent.created_at + cooldown
             IN  IF clock < cooldownEnd
                 THEN [canRetry |-> FALSE, nextRetryAt |-> <<cooldownEnd>>]
                 ELSE [canRetry |-> TRUE, nextRetryAt |-> <<>>]
        ELSE [canRetry |-> TRUE, nextRetryAt |-> <<>>]

\* checkRetryEligibility(assessmentType, previousAttempts), with Date.now() = clock
checkRetryEligibility(type, attempts, clock) ==
    LET limits == MAX_ATTEMPTS[type]
        cooldown == COOLDOWN_HOURS[type]
        periodStart == clock - limits.period_days * 24
        InPeriod(a) == a.created_at >= periodStart
        recentAttempts == SelectSeq(attempts, InPeriod)
    IN  IF Len(recentAttempts) >= limits.count
        THEN LET oldestInPeriod == OldestOf(recentAttempts, 1, recentAttempts[1])
                 periodEnd == oldestInPeriod.created_at + limits.period_days * 24
             IN  [canRetry |-> FALSE, nextRetryAt |-> <<periodEnd>>]
        ELSE IF Len(attempts) > 0 /\ cooldown > 0
        THEN LET mostRecent == LatestOf(attempts, 1, attempts[1])
                 cooldownEnd == mostRecent.created_at + cooldown
             IN  IF clock < cooldownEnd
                 THEN [canRetry |-> FALSE, nextRetryAt |-> <<cooldownEnd>>]
                 ELSE [canRetry |-> TRUE, nextRetryAt |-> <<>>]
        ELSE [canRetry |-> TRUE, nextRetryAt |-> <<>>]

\* ---------------------------------------------------------------------------
\* Grading
\* ---------------------------------------------------------------------------
\* The feedback entry with the explanation looked up for correct picks too
QuestionFeedback_ExplainsCorrect(question, sub, correctMap, answerMap) ==
    LET userAnswer == FindAnswer(sub.answers, question.id)
        correct == MapGet(correctMap, question.id)
    IN  IF correct = <<>> THEN <<>>
        ELSE LET selectedAnswerId == IF userAnswer = <<>> THEN ""
                                     ELSE userAnswer[1].answer_id
                 isCorrect == selectedAnswerId = correct[1].id
                 selectedAnswer == MapGet(answerMap, selectedAnswerId)
                 explanation == IF selectedAnswerId # ""
                                THEN IF selectedAnswer = <<>> THEN NULL
                                     ELSE selectedAnswer[1].explanation
                                ELSE NULL
             IN  <<[question_id |-> question.id,
                    correct |-> isCorrect,
                    selected_answer_id |-> selectedAnswerId,
                    correct_answer_id |-> correct[1].id,
                    explanation |-> explanation,
                    concept_tag |-> question.concept_tag]>>

\* One iteration of the for-loop shared by evaluateQuiz and evaluateAssessment:
\* the feedback entry of a question, or <<>> when the question is skipped.
QuestionFeedback(question, sub, correctMap, answerMap) ==
    LET userAnswer == FindAnswer(sub.answers, question.id)
        correct == MapGet(correctMap, question.id)
    IN  IF correct = <<>> THEN <<>>
        ELSE LET selectedAnswerId == IF userAnswer = <<>> THEN ""
                                     ELSE userAnswer[1].answer_id
                 isCorrect == selectedAnswerId = correct[1].id
                 selectedAnswer == MapGet(answerMap, selectedAnswerId)
                 explanation == IF ~isCorrect /\ selectedAnswerId # ""
                                THEN IF selectedAnswer = <<>> THEN NULL
                                     ELSE selectedAnswer[1].explanation
                                ELSE NULL
             IN  <<[question_id |-> question.id,
                    correct |-> isCorrect,
                    selected_answer_id |-> selectedAnswerId,
                    correct_answer_id |-> correct[1].id,
                    explanation |-> explanation,
                    concept_tag |-> question.concept_tag]>>

\* The for-loop of evaluateQuiz: accumulates correctCount and feedback
RECURSIVE QuizLoop(_, _, _, _, _, _)
QuizLoop(qs, sub, correctMap, answerMap, i, acc) ==
    IF i > Len(qs) THEN acc
    ELSE LET fb == QuestionFeedback(qs[i], sub, correctMap, answerMap)
         IN  QuizLoop(qs, sub, correctMap, answerMap, i + 1,
                 IF fb = <<>> THEN acc
                 ELSE [correctCount |-> acc.correctCount
                                          + (IF fb[1].correct THEN 1 ELSE 0),
                       feedback |-> acc.feedback \o fb])

\* Score with Math.floor in place of Math.round
Score_Truncating(correctCount, totalQuestions) ==
    IF totalQuestions > 0 THEN (correctCount * 10000) \div totalQuestions
    ELSE 0

Score(correctCount, totalQuestions) ==
    IF totalQuestions > 0 THEN MathRound(correctCount * 10000, totalQuestions)
    ELSE 0

evaluateQuiz(sub, qs, correctMap, answerMap) ==
    LET totalQuestions == Len(qs)
        loop == QuizLoop(qs, sub, correctMap, answerMap, 1,
                         [correctCount |-> 0, feedback |-> <<>>])
        score == Score(loop.correctCount, totalQuestions)
    IN  [score |-> score,
         passed |-> score >= PASS_THRESHOLD * 100,
         total_questions |-> totalQuestions,
         correct_count |-> loop.correctCount,
         feedback |-> loop.feedback]

\* Set.prototype.add on an insertion-ordered Set
SetAdd(seq, x) == IF \E i \in 1..Len(seq) : seq[i] = x THEN seq ELSE Append(seq, x)

\* The for-loop of evaluateAssessment: also collects incorrectConcepts
RECURSIVE AssessmentLoop(_, _, _, _, _, _)
AssessmentLoop(qs, sub, correctMap, answerMap, i, acc) ==
    IF i > Len(qs) THEN acc
    ELSE LET fb == QuestionFeedback(qs[i], sub, correctMap, answerMap)
         IN  AssessmentLoop(qs, sub, correctMap, answerMap, i + 1,
                 IF fb = <<>> THEN acc
                 ELSE [correctCount |-> acc.correctCount
                                          + (IF fb[1].correct THEN 1 ELSE 0),
                       feedback |-> acc.feedback \o fb,
                       incorrectConcepts |->
                           IF ~fb[1].correct /\ Truthy(qs[i].concept_tag)
                           THEN SetAdd(acc.incorrectConcepts, qs[i].concept_tag)
                           ELSE acc.incorrectConcepts])

evaluateAssessment(sub, type, qs, correctMap, answerMap, attempts, clock) ==
    LET totalQuestions == Len(qs)
        loop == AssessmentLoop(qs, sub, correctMap, answerMap, 1,
                    [correctCount |-> 0, feedback |-> <<>>,
                     incorrectConcepts |-> <<>>])
        score == Score(loop.correctCount, totalQuestions)
        threshold == getPassThreshold(type)
        grade == calculateGrade(score)
        passed == score >= threshold * 100
        retry == checkRetryEligibility(type, attempts, clock)
    IN  [score |-> score,
         grade |-> grade,
         passed |-> passed,
         total_questions |-> totalQuestions,
         correct_count |-> loop.correctCount,
         feedback |-> loop.feedback,
         weak_concepts |-> loop.incorrectConcepts,
         can_retry |-> ~passed /\ retry.canRetry,
         next_retry_available_at |-> retry.nextRetryAt]

\* extractIncorrectConcepts(result): filter, then map
extractIncorrectConcepts(result) ==
    LET Missed(f) == ~f.correct /\ Truthy(f.concept_tag)
        missed == SelectSeq(result.feedback, Missed)
    IN  [i \in 1..Len(missed) |->
            [concept_tag |-> missed[i].concept_tag,
             question_id |-> missed[i].question_id]]

\* ---------------------------------------------------------------------------
\* SpecGrade: the grading functions applied to drawn inputs
\* ---------------------------------------------------------------------------
\* The question bank the inputs are drawn from.  Question i has the right
\* answer RightIds[i] and the wrong answer WrongIds[i]; some answers carry
\* explanation text, and every third question has no concept tag.
QuestionIds == <<"q1", "q2", "q3", "q4", "q5", "q6", "q7", "q8", "q9", "q10", "q11", "q12">>
RightIds == <<"r1", "r2", "r3", "r4", "r5", "r6", "r7", "r8", "r9", "r10", "r11", "r12">>
WrongIds == <<"w1", "w2", "w3", "w4", "w5", "w6", "w7", "w8", "w9", "w10", "w11", "w12">>

TagOf(i) == CASE i % 4 = 1 -> "identification"
              [] i % 4 = 2 -> "identification"
              [] i % 4 = 3 -> NULL
              [] OTHER -> "centers"

BankQuestion(i) == [id |-> QuestionIds[i], concept_tag |-> TagOf(i)]

BankRight(i, isCorrect) ==
    [id |-> RightIds[i], question_id |-> QuestionIds[i], is_correct |-> isCorrect,
     explanation |-> IF i % 2 = 0 THEN "why this is right" ELSE NULL]

BankWrong(i) == [id |-> WrongIds[i], question_id |-> QuestionIds[i], is_correct |-> FALSE,
                 explanation |-> IF i % 2 = 1 THEN "why this is wrong" ELSE NULL]

\* What the student does with question i of n
Picks == {"omit", "right", "wrong", "foreign", "unknown"}

PickedId(i, n, pick) ==
    CASE pick = "right" -> RightIds[i]
      [] pick = "wrong" -> WrongIds[i]
      [] pick = "foreign" -> WrongIds[(i % n) + 1]
      [] OTHER -> "zz"

\* submission.answers for the picks, in question order
RECURSIVE BuildAnswers(_, _, _)
BuildAnswers(i, n, pick) ==
    IF i > n THEN <<>>
    ELSE (IF pick[i] = "omit" THEN <<>>
          ELSE <<[question_id |-> QuestionIds[i],
                  answer_id |-> PickedId(i, n, pick[i])]>>)
         \o BuildAnswers(i + 1, n, pick)

\* The rows of the answers table for questions 1..n; hasCorrect[i] tells
\* whether question i has an answer flagged is_correct
AnswerRows(n, hasCorrect) ==
    {BankRight(i, hasCorrect[i]) : i \in 1..n} \cup {BankWrong(i) : i \in 1..n}

\* The lookup maps as the routes build them from the answer rows
BuildCorrect(rows) ==
    [q \in {a.question_id : a \in {b \in rows : b.is_correct}} |->
        CHOOSE a \in rows : a.is_correct /\ a.question_id = q]

BuildAll(rows) ==
    [id \in {a.id : a \in rows} |-> CHOOSE a \in rows : a.id = id]

GradeInputs(n, hasCorrect, pick) ==
    /\ questions = [i \in 1..n |-> BankQuestion(i)]
    /\ correctAnswers = BuildCorrect(AnswerRows(n, hasCorrect))
    /\ allAnswers = BuildAll(AnswerRows(n, hasCorrect))
    /\ submission = [answers |-> BuildAnswers(1, n, pick)]

\* ---------------------------------------------------------------------------
\* Curriculum content
\* ---------------------------------------------------------------------------
\* public.levels: level 0 is free, level 1 is paid
levels == {[id |-> "level0", order |-> 0], [id |-> "level1", order |-> 1]}

\* public.modules, UNIQUE (level_id, "order"); term_id was added by the
\* migration and is NULL on a legacy module
ModuleIds == <<"mod1", "mod2", "mod3", "mod4", "mod5">>

modules ==
    {[id |-> "mod1", level_id |-> "level0", order |-> 1, term_id |-> "term1"],
     [id |-> "mod2", level_id |-> "level0", order |-> 2, term_id |-> "term1"],
     [id |-> "mod3", level_id |-> "level0", order |-> 3, term_id |-> "term1"],
     [id |-> "mod4", level_id |-> "level1", order |-> 1, term_id |-> "term2"],
     [id |-> "mod5", level_id |-> "level1", order |-> 2, term_id |-> NULL]}

\* public.lessons, UNIQUE (module_id, "order"), with every order from 1 up
\* present in every module.  lesson1 and lesson2 are the lessons with a quiz.
DenseLessons ==
    {[id |-> "lesson1", module_id |-> "mod1", order |-> 1],
     [id |-> "lessonA", module_id |-> "mod1", order |-> 2],
     [id |-> "lessonC", module_id |-> "mod1", order |-> 3],
     [id |-> "lessonB", module_id |-> "mod2", order |-> 1],
     [id |-> "lesson2", module_id |-> "mod3", order |-> 1],
     [id |-> "lesson4", module_id |-> "mod4", order |-> 1],
     [id |-> "lesson5", module_id |-> "mod5", order |-> 1]}

\* Lesson tables the schema also admits: a lesson without a quiz was never
\* written or was deleted, which leaves a gap in mod1 or leaves mod2 empty
LessonTables ==
    {DenseLessons \ {l \in DenseLessons : l.id \in gone} :
        gone \in SUBSET {"lessonA", "lessonB"}}

\* The seeded rows of public.years
YearIds == <<"year1", "year2", "year3">>

years == {[id |-> YearIds[k], order |-> k] : k \in 1..3}

AmbientIdle ==
    /\ lessons = DenseLessons
    /\ moduleExams = {} /\ yearReviews = {}
    /\ transcript_entries = {} /\ subscriptions = {}

Requests == {"r1", "r2"}

AuxIdle ==
    /\ accessResult = <<>>
    /\ gpaEntries = <<>> /\ gpaOut = <<>>
    /\ inflight = [r \in Requests |-> [pc |-> "idle"]]

RetryIdle == now = 0 /\ previousAttempts = <<>> /\ retryResult = <<>>

DbIdle ==
    /\ quiz_attempts = {} /\ progress = {} /\ weak_areas = {}
    /\ assessment_attempts = {} /\ termExams = {} /\ ledgerLog = {}
    /\ response = {}
    /\ AmbientIdle

MaxScore == 100 * 100

InitGrade ==
    /\ RetryIdle /\ DbIdle /\ AuxIdle
    /\ quizResult = <<>> /\ assessmentResult = <<>> /\ gradeOut = <<>>
    /\ \/ \* free inputs on short question lists
          /\ scoreIn = <<>>
          /\ assessmentType \in AssessmentTypes
          /\ \E n \in 0..MaxRichQuestions :
               \E hasCorrect \in [1..n -> BOOLEAN], pick \in [1..n -> Picks] :
                  GradeInputs(n, hasCorrect, pick)
       \/ \* longer lists: the first c questions right, the others wrong
          /\ scoreIn = <<>>
          /\ assessmentType \in AssessmentTypes
          /\ \E n \in 1..MaxQuestions : \E c \in 0..n :
                  GradeInputs(n, [i \in 1..n |-> TRUE],
                              [i \in 1..n |-> IF i <= c THEN "right" ELSE "wrong"])
       \/ \* a score for the grade table
          /\ scoreIn \in {<<s>> : s \in 0..MaxScore}
          /\ assessmentType = "lesson_check"
          /\ GradeInputs(0, <<>>, <<>>)

CallEvaluateQuiz ==
    /\ scoreIn = <<>> /\ quizResult = <<>>
    /\ quizResult' = <<evaluateQuiz(submission, questions, correctAnswers, allAnswers)>>
    /\ UNCHANGED <<questions, correctAnswers, allAnswers, submission, assessmentType,
                   assessmentResult, scoreIn, gradeOut, retryVars, dbVars, auxVars>>

CallEvaluateAssessment ==
    /\ scoreIn = <<>> /\ assessmentResult = <<>>
    /\ assessmentResult' = <<evaluateAssessment(submission, assessmentType, questions,
                                 correctAnswers, allAnswers, previousAttempts, now)>>
    /\ UNCHANGED <<questions, correctAnswers, allAnswers, submission, assessmentType,
                   quizResult, scoreIn, gradeOut, retryVars, dbVars, auxVars>>

CallCalculateGrade ==
    /\ scoreIn # <<>> /\ gradeOut = <<>>
    /\ gradeOut' = <<calculateGrade(scoreIn[1])>>
    /\ UNCHANGED <<questions, correctAnswers, allAnswers, submission, assessmentType,
                   quizResult, assessmentResult, scoreIn, retryVars, dbVars, auxVars>>

NextGrade == CallEvaluateQuiz \/ CallEvaluateAssessment \/ CallCalculateGrade

SpecGrade == InitGrade /\ [][NextGrade]_vars

\* ---------------------------------------------------------------------------
\* Properties of the grading functions (checked under SpecGrade)
\* ---------------------------------------------------------------------------
\* The results computed so far, QuizResult and AssessmentResult alike
GradedResults ==
    {quizResult[i] : i \in 1..Len(quizResult)}
        \cup {[f \in {"score", "passed", "total_questions", "correct_count", "feedback"}
                 |-> assessmentResult[i][f]] : i \in 1..Len(assessmentResult)}

\* Indices of the questions that have an entry in the correct-answer lookup
KnownQuestions == {i \in 1..Len(questions) : questions[i].id \in DOMAIN correctAnswers}

\* Indices of the questions whose selected answer (the first submitted answer
\* for the question) is the question's correct answer
CorrectlyAnswered ==
    {i \in KnownQuestions :
        \E j \in 1..Len(submission.answers) :
            /\ submission.answers[j].question_id = questions[i].id
            /\ \A k \in 1..(j - 1) :
                   submission.answers[k].question_id # questions[i].id
            /\ submission.answers[j].answer_id = correctAnswers[questions[i].id].id}

\* s is num/den rounded half up
IsRounded(s, num, den) == 2 * s * den <= 2 * num + den /\ 2 * num + den < 2 * (s + 1) * den

\* C1: a question that has no entry in the correct-answer lookup adds to
\* neither total_questions nor correct_count, so the score is computed over
\* the questions with a known correct answer only.
C1_UnknownQuestionsExcluded ==
    \A r \in GradedResults :
        /\ r.total_questions = Cardinality(KnownQuestions)
        /\ r.correct_count = Cardinality(CorrectlyAnswered)
        /\ IF KnownQuestions = {} THEN r.score = 0
           ELSE IsRounded(r.score, r.correct_count * 10000, Cardinality(KnownQuestions))

\* C2: for a question list of size N > 0 the score is correct_count / N * 100
\* rounded to two decimals, correct_count being the number of questions whose
\* selected answer is the correct one; for N = 0 the score is 0; and
\* 0 <= correct_count <= total_questions, 0 <= score <= 100.
C2_ScoreFormula ==
    \A r \in GradedResults :
        LET N == Len(questions) IN
        /\ r.total_questions = N
        /\ r.correct_count = Cardinality(CorrectlyAnswered)
        /\ N > 0 => IsRounded(r.score, r.correct_count * 10000, N)
        /\ N = 0 => r.score = 0
        /\ 0 <= r.correct_count /\ r.correct_count <= r.total_questions
        /\ 0 <= r.score /\ r.score <= 100 * 100

\* C2 witness: two of three questions right, graded by both functions, 66.67
C2_Witness ==
    /\ quizResult # <<>> /\ assessmentResult # <<>>
    /\ Len(questions) = 3
    /\ quizResult[1].correct_count = 2 /\ quizResult[1].score = 6667
    /\ assessmentResult[1].score = 6667

\* C3: passed is true exactly when score >= the tier's threshold (80, 75, 70,
\* 70); an assessment with zero questions has score 0, passed = false and an
\* empty feedback list.
C3_PassedIffThreshold ==
    /\ \A i \in 1..Len(assessmentResult) :
          LET r == assessmentResult[i]
              threshold == CASE assessmentType = "lesson_check" -> 8000
                             [] assessmentType = "module_exam" -> 7500
                             [] assessmentType = "term_exam" -> 7000
                             [] assessmentType = "cumulative_review" -> 7000
          IN  /\ r.passed <=> r.score >= threshold
              /\ Len(questions) = 0 =>
                    r.score = 0 /\ ~r.passed /\ r.feedback = <<>>
    /\ \A i \in 1..Len(quizResult) :
          LET r == quizResult[i]
          IN  /\ r.passed <=> r.score >= 8000
              /\ Len(questions) = 0 =>
                    r.score = 0 /\ ~r.passed /\ r.feedback = <<>>

\* C3 witness: a module exam passed with exactly 75.00
C3_Witness ==
    /\ assessmentResult # <<>>
    /\ assessmentType = "module_exam"
    /\ assessmentResult[1].score = 7500
    /\ assessmentResult[1].passed

\* C4: calculateGrade maps every score of [0,100] to exactly one letter:
\* A = [90,100], B = [80,90), C = [70,80), D = [60,70), F = [0,60).
C4_GradePartition ==
    \A i \in 1..Len(gradeOut) :
        LET s == scoreIn[1]
            g == gradeOut[i]
        IN  /\ g \in {"A", "B", "C", "D", "F"}
            /\ g = "A" <=> (9000 <= s /\ s <= 10000)
            /\ g = "B" <=> (8000 <= s /\ s < 9000)
            /\ g = "C" <=> (7000 <= s /\ s < 8000)
            /\ g = "D" <=> (6000 <= s /\ s < 7000)
            /\ g = "F" <=> (0 <= s /\ s < 6000)

\* C4 witness: the boundary score 90.00 graded A
C4_Witness == scoreIn = <<9000>> /\ gradeOut = <<"A">>

\* ---------------------------------------------------------------------------
\* SpecRetry: checkRetryEligibility over a clock and an attempt history
\* ---------------------------------------------------------------------------
GradeIdle ==
    /\ GradeInputs(0, <<>>, <<>>)
    /\ quizResult = <<>> /\ assessmentResult = <<>>
    /\ scoreIn = <<>> /\ gradeOut = <<>>

InitRetry ==
    /\ GradeIdle /\ DbIdle /\ AuxIdle
    /\ assessmentType \in AssessmentTypes
    /\ now = 0
    /\ previousAttempts = <<>>
    /\ retryResult = <<>>

\* s with x inserted after position p: the caller supplies the history in
\* whatever order its query returned it
InsertAt(s, p, x) == SubSeq(s, 1, p) \o <<x>> \o SubSeq(s, p + 1, Len(s))

\* A day passes
Tick ==
    /\ now < MaxDays * 24
    /\ now' = now + 24
    /\ retryResult' = <<>>
    /\ UNCHANGED <<previousAttempts, gradeVars, dbVars, auxVars>>

\* An attempt is stored with created_at = NOW()
RecordAttempt ==
    /\ Len(previousAttempts) < MaxHistory
    /\ \E p \in 0..Len(previousAttempts) :
          previousAttempts' = InsertAt(previousAttempts, p, [created_at |-> now])
    /\ retryResult' = <<>>
    /\ UNCHANGED <<now, gradeVars, dbVars, auxVars>>

CallCheckRetryEligibility ==
    /\ retryResult = <<>>
    /\ retryResult' = <<checkRetryEligibility(assessmentType, previousAttempts, now)>>
    /\ UNCHANGED <<now, previousAttempts, gradeVars, dbVars, auxVars>>

NextRetry == Tick \/ RecordAttempt \/ CallCheckRetryEligibility

SpecRetry == InitRetry /\ [][NextRetry]_vars

\* ---------------------------------------------------------------------------
\* Properties of checkRetryEligibility (checked under SpecRetry)
\* ---------------------------------------------------------------------------
\* The tier policies as the design states them: N attempts per P days, C hours
PolicyN == CASE assessmentType = "lesson_check" -> 3
             [] assessmentType = "module_exam" -> 3
             [] assessmentType = "term_exam" -> 2
             [] assessmentType = "cumulative_review" -> 3

PolicyP == CASE assessmentType = "lesson_check" -> 1
             [] assessmentType = "module_exam" -> 7
             [] assessmentType = "term_exam" -> 14
             [] assessmentType = "cumulative_review" -> 7

PolicyC == CASE assessmentType = "lesson_check" -> 0
             [] assessmentType = "module_exam" -> 24
             [] assessmentType = "term_exam" -> 48
             [] assessmentType = "cumulative_review" -> 24

\* Timestamps of the prior attempts inside the rolling window, and of all
InWindow == {i \in 1..Len(previousAttempts) :
                previousAttempts[i].created_at >= now - PolicyP * 24}

Earliest(idx) == CHOOSE t \in {previousAttempts[i].created_at : i \in idx} :
                    \A i \in idx : t <= previousAttempts[i].created_at

Latest(idx) == CHOOSE t \in {previousAttempts[i].created_at : i \in idx} :
                    \A i \in idx : t >= previousAttempts[i].created_at

\* C5: if at least N prior attempts have timestamp >= now - P days, the
\* evaluator returns not eligible with nextEligibleAt = (earliest of the
\* in-window timestamps) + P days; older attempts do not count toward N.
C5_AttemptLimit ==
    \A k \in 1..Len(retryResult) :
        Cardinality(InWindow) >= PolicyN =>
            /\ ~retryResult[k].canRetry
            /\ retryResult[k].nextRetryAt = <<Earliest(InWindow) + PolicyP * 24>>

\* C5 witness: a term exam with two attempts in the window, supplied latest
\* first, and a third attempt that has left the window
C5_Witness ==
    /\ retryResult # <<>> /\ ~retryResult[1].canRetry
    /\ assessmentType = "term_exam"
    /\ Len(previousAttempts) = 3
    /\ Cardinality(InWindow) = 2
    /\ \E i \in InWindow, j \in InWindow :
          i < j /\ previousAttempts[i].created_at > previousAttempts[j].created_at

\* C6: with fewer than N attempts in the window, a cooldown C > 0 and at least
\* one prior attempt, the evaluator is not eligible exactly when
\* now < (latest timestamp of the whole history) + C hours, and nextEligibleAt
\* is that boundary; otherwise it is eligible with nextEligibleAt = null.  For
\* lesson_check (C = 0) the cooldown never makes a student ineligible.
C6_Cooldown ==
    \A k \in 1..Len(retryResult) :
        Cardinality(InWindow) < PolicyN =>
            IF /\ PolicyC > 0
               /\ Len(previousAttempts) > 0
               /\ now < Latest(1..Len(previousAttempts)) + PolicyC
            THEN /\ ~retryResult[k].canRetry
                 /\ retryResult[k].nextRetryAt =
                        <<Latest(1..Len(previousAttempts)) + PolicyC>>
            ELSE /\ retryResult[k].canRetry
                 /\ retryResult[k].nextRetryAt = <<>>

\* C6 witness: a term exam one day after the later of two attempts, the
\* later attempt supplied last: still inside the 48h cooldown
C6_Witness ==
    /\ retryResult # <<>> /\ ~retryResult[1].canRetry
    /\ assessmentType = "term_exam"
    /\ Len(previousAttempts) = 2
    /\ Cardinality(InWindow) = 1
    /\ previousAttempts[2].created_at = now - 24
    /\ retryResult[1].nextRetryAt = <<now + 24>>

\* ---------------------------------------------------------------------------
\* Weak-area ledger
\* ---------------------------------------------------------------------------
\* PostgREST .single(): the row when exactly one row matches, else no data
Single(rows) == IF Cardinality(rows) = 1 THEN <<CHOOSE r \in rows : TRUE>> ELSE <<>>

\* [...new Set(incorrectConcepts.map(c => c.concept_tag))]
RECURSIVE UniqueTags(_, _, _)
UniqueTags(incorrectConcepts, i, acc) ==
    IF i > Len(incorrectConcepts) THEN acc
    ELSE UniqueTags(incorrectConcepts, i + 1, SetAdd(acc, incorrectConcepts[i].concept_tag))

\* One iteration of the loop of updateWeakAreas written without the count of
\* misses: every missed tag adds one
UpdateOneTag_AddsOne(rows, userId, incorrectConcepts, tag) ==
    LET existing == Single({r \in rows : r.user_id = userId /\ r.concept_tag = tag})
    IN  IF existing # <<>>
        THEN (rows \ {existing[1]})
                \cup {[existing[1] EXCEPT !.error_count = existing[1].error_count + 1]}
        ELSE rows \cup {[user_id |-> userId, concept_tag |-> tag, error_count |-> 1]}

\* One iteration of the loop of updateWeakAreas that overwrites an existing
\* row with the count of this attempt instead of adding to it
UpdateOneTag_Overwrites(rows, userId, incorrectConcepts, tag) ==
    LET IsTag(c) == c.concept_tag = tag
        errorCount == Len(SelectSeq(incorrectConcepts, IsTag))
    IN  {r \in rows : ~(r.user_id = userId /\ r.concept_tag = tag)}
            \cup {[user_id |-> userId, concept_tag |-> tag, error_count |-> errorCount]}

\* One iteration of the loop of updateWeakAreas: select, then update or insert
UpdateOneTag(rows, userId, incorrectConcepts, tag) ==
    LET IsTag(c) == c.concept_tag = tag
        errorCount == Len(SelectSeq(incorrectConcepts, IsTag))
        existing == Single({r \in rows : r.user_id = userId /\ r.concept_tag = tag})
    IN  IF existing # <<>>
        THEN (rows \ {existing[1]})
                \cup {[existing[1] EXCEPT
                         !.error_count = existing[1].error_count + errorCount]}
        ELSE rows \cup {[user_id |-> userId, concept_tag |-> tag,
                         error_count |-> errorCount]}

RECURSIVE WeakAreasLoop(_, _, _, _, _)
WeakAreasLoop(rows, userId, incorrectConcepts, uniqueTags, i) ==
    IF i > Len(uniqueTags) THEN rows
    ELSE WeakAreasLoop(UpdateOneTag(rows, userId, incorrectConcepts, uniqueTags[i]),
                       userId, incorrectConcepts, uniqueTags, i + 1)

\* updateWeakAreas(supabase, userId, incorrectConcepts): the table afterwards
updateWeakAreas(rows, userId, incorrectConcepts) ==
    IF Len(incorrectConcepts) = 0 THEN rows
    ELSE WeakAreasLoop(rows, userId, incorrectConcepts,
                       UniqueTags(incorrectConcepts, 1, <<>>), 1)

REVIEW_THRESHOLD == 3

\* getRequiredReviews with the threshold comparison strict
getRequiredReviews_Strict(rows, userId) ==
    {r.concept_tag : r \in {w \in rows : w.user_id = userId
                                            /\ w.error_count > REVIEW_THRESHOLD}}

\* getRequiredReviews(supabase, userId): the concept tags returned
getRequiredReviews(rows, userId) ==
    {r.concept_tag : r \in {w \in rows : w.user_id = userId
                                            /\ w.error_count >= REVIEW_THRESHOLD}}

\* ---------------------------------------------------------------------------
\* Progression: attempts, retry action, term gate
\* ---------------------------------------------------------------------------
\* getAttemptCount(supabase, userId, quizId)
getAttemptCount(attempts, userId, quizId) ==
    Cardinality({a \in attempts : a.user_id = userId /\ a.quiz_id = quizId})

\* getRetryAction that never escalates beyond revisit_lesson
getRetryAction_NoReviewRequired(attemptNumber) ==
    IF attemptNumber <= 1 THEN "retry"
    ELSE "revisit_lesson"

\* getRetryAction(attemptNumber): the type of the action
getRetryAction(attemptNumber) ==
    IF attemptNumber <= 1 THEN "retry"
    ELSE IF attemptNumber = 2 THEN "revisit_lesson"
    ELSE "review_required"

\* The seeded rows of public.terms: global orders 1..MaxTerm, UNIQUE ("order")
TermIds == <<"term1", "term2", "term3", "term4", "term5", "term6", "term7", "term8">>
ExamIds == <<"exam1", "exam2", "exam3", "exam4", "exam5", "exam6", "exam7", "exam8">>

YearOfTerm == <<1, 1, 1, 2, 2, 2, 3, 3>>

terms == {[id |-> TermIds[k], order |-> k, year_id |-> YearIds[YearOfTerm[k]]] :
             k \in 1..Len(TermIds)}

ModuleExamIds == <<"mexam1", "mexam2", "mexam3", "mexam4", "mexam5">>
ReviewIds == <<"review1", "review2", "review3">>

\* The rows of public.assessments: at most one term exam per term, one module
\* exam per module and one cumulative review per year
assessments ==
    {[id |-> ExamIds[k], type |-> "term_exam", term_id |-> TermIds[k],
      module_id |-> NULL, year_id |-> NULL] : k \in termExams}
    \cup {[id |-> ModuleExamIds[k], type |-> "module_exam", term_id |-> NULL,
           module_id |-> ModuleIds[k], year_id |-> NULL] : k \in moduleExams}
    \cup {[id |-> ReviewIds[k], type |-> "cumulative_review", term_id |-> NULL,
           module_id |-> NULL, year_id |-> YearIds[k]] : k \in yearReviews}

\* canAccessTerm without the weak-area check
canAccessTerm_NoWeakAreaCheck(userId, termId) ==
    LET term == Single({t \in terms : t.id = termId})
    IN  IF term = <<>> THEN [accessible |-> FALSE, reason |-> "Term not found.",
                              concepts |-> {}]
        ELSE IF term[1].order = 1
        THEN [accessible |-> TRUE, reason |-> NULL, concepts |-> {}]
        ELSE
        LET prevTerm == Single({t \in terms : t.order = term[1].order - 1})
            termExam == IF prevTerm = <<>> THEN <<>>
                        ELSE Single({a \in assessments :
                                        a.term_id = prevTerm[1].id /\ a.type = "term_exam"})
            passingAttempt ==
                IF termExam = <<>> THEN {}
                ELSE {a \in assessment_attempts :
                         /\ a.user_id = userId
                         /\ a.assessment_id = termExam[1].id
                         /\ a.passed}
        IN  IF prevTerm = <<>>
            THEN [accessible |-> TRUE, reason |-> NULL, concepts |-> {}]
            ELSE IF termExam # <<>> /\ passingAttempt = {}
            THEN [accessible |-> FALSE,
                  reason |-> "You must pass the previous term's final examination before proceeding to this term.",
                  concepts |-> {}]
            ELSE [accessible |-> TRUE, reason |-> NULL, concepts |-> {}]

\* canAccessTerm(supabase, userId, termId).  The reason of a weak-area denial
\* is the fixed sentence followed by the joined concept tags; the tags are
\* kept apart in the field concepts.
canAccessTerm(userId, termId) ==
    LET term == Single({t \in terms : t.id = termId})
    IN  IF term = <<>> THEN [accessible |-> FALSE, reason |-> "Term not found.",
                              concepts |-> {}]
        ELSE IF term[1].order = 1
        THEN [accessible |-> TRUE, reason |-> NULL, concepts |-> {}]
        ELSE
        LET prevTerm == Single({t \in terms : t.order = term[1].order - 1})
            termExam == IF prevTerm = <<>> THEN <<>>
                        ELSE Single({a \in assessments :
                                        a.term_id = prevTerm[1].id /\ a.type = "term_exam"})
            passingAttempt ==
                IF termExam = <<>> THEN {}
                ELSE {a \in assessment_attempts :
                         /\ a.user_id = userId
                         /\ a.assessment_id = termExam[1].id
                         /\ a.passed}
            weakAreas == {w \in weak_areas : w.user_id = userId}
            blockingAreas == {w \in weakAreas : w.error_count >= 3}
        IN  IF prevTerm = <<>>
            THEN [accessible |-> TRUE, reason |-> NULL, concepts |-> {}]
            ELSE IF termExam # <<>> /\ passingAttempt = {}
            THEN [accessible |-> FALSE,
                  reason |-> "You must pass the previous term's final examination before proceeding to this term.",
                  concepts |-> {}]
            ELSE IF blockingAreas # {}
            THEN [accessible |-> FALSE,
                  reason |-> "The following concepts require targeted review before progression:",
                  concepts |-> {w.concept_tag : w \in blockingAreas}]
            ELSE [accessible |-> TRUE, reason |-> NULL, concepts |-> {}]

\* The user has a passing attempt for the assessment (.eq("passed", true).limit(1))
HasPassingAttempt(userId, assessmentId) ==
    \E a \in assessment_attempts :
        a.user_id = userId /\ a.assessment_id = assessmentId /\ a.passed

\* The accumulation loop of canAccessYear over the selected transcript entries,
\* in hundredths of a point; the weights are 2.0 for term_exam, 1.0 otherwise
RECURSIVE YearWeightedSum(_)
YearWeightedSum(entries) ==
    IF entries = {} THEN 0
    ELSE LET entry == CHOOSE e \in entries : TRUE
             weight == IF entry.assessment_type = "term_exam" THEN 2 ELSE 1
         IN  entry.score * weight + YearWeightedSum(entries \ {entry})

RECURSIVE YearTotalWeight(_)
YearTotalWeight(entries) ==
    IF entries = {} THEN 0
    ELSE LET entry == CHOOSE e \in entries : TRUE
             weight == IF entry.assessment_type = "term_exam" THEN 2 ELSE 1
         IN  weight + YearTotalWeight(entries \ {entry})

Denied(reason) == [accessible |-> FALSE, reason |-> reason]

Granted == [accessible |-> TRUE, reason |-> NULL]

\* canAccessYear that lets a year it cannot find through
canAccessYear_MissingIsOpen(userId, yearId) ==
    LET year == Single({y \in years : y.id = yearId})
    IN  IF year = <<>> THEN Granted
        ELSE IF year[1].order = 1 THEN Granted
        ELSE
        LET prevYear == Single({y \in years : y.order = year[1].order - 1})
            prevTerms == IF prevYear = <<>> THEN {}
                         ELSE {t \in terms : t.year_id = prevYear[1].id}
            TermExam(t) == Single({a \in assessments :
                                      a.term_id = t.id /\ a.type = "term_exam"})
            cumulativeReview ==
                IF prevYear = <<>> THEN <<>>
                ELSE Single({a \in assessments :
                                a.year_id = prevYear[1].id /\ a.type = "cumulative_review"})
            transcriptEntries ==
                IF prevYear = <<>> THEN {}
                ELSE {e \in transcript_entries :
                         /\ e.user_id = userId
                         /\ e.year_id = prevYear[1].id
                         /\ e.passed
                         /\ e.assessment_type \in {"module_exam", "term_exam"}}
        IN  IF prevYear = <<>> THEN Granted
            ELSE IF prevTerms = {} THEN Granted
            ELSE IF \E t \in prevTerms :
                       TermExam(t) # <<>> /\ ~HasPassingAttempt(userId, TermExam(t)[1].id)
            THEN Denied("All term examinations in the previous year must be passed before advancing.")
            ELSE IF cumulativeReview # <<>>
                    /\ ~HasPassingAttempt(userId, cumulativeReview[1].id)
            THEN Denied("The cumulative review for the previous year must be passed before advancing.")
            ELSE IF transcriptEntries # {}
                    /\ YearWeightedSum(transcriptEntries)
                          < 70 * 100 * YearTotalWeight(transcriptEntries)
            THEN Denied("Your GPA for the previous year is below the required minimum of 70.")
            ELSE Granted

\* canAccessYear(supabase, userId, yearId).  The reason of a GPA denial is the
\* fixed sentence around Math.round(yearGPA).
canAccessYear(userId, yearId) ==
    LET year == Single({y \in years : y.id = yearId})
    IN  IF year = <<>> THEN Denied("Year not found.")
        ELSE IF year[1].order = 1 THEN Granted
        ELSE
        LET prevYear == Single({y \in years : y.order = year[1].order - 1})
            prevTerms == IF prevYear = <<>> THEN {}
                         ELSE {t \in terms : t.year_id = prevYear[1].id}
            TermExam(t) == Single({a \in assessments :
                                      a.term_id = t.id /\ a.type = "term_exam"})
            cumulativeReview ==
                IF prevYear = <<>> THEN <<>>
                ELSE Single({a \in assessments :
                                a.year_id = prevYear[1].id /\ a.type = "cumulative_review"})
            transcriptEntries ==
                IF prevYear = <<>> THEN {}
                ELSE {e \in transcript_entries :
                         /\ e.user_id = userId
                         /\ e.year_id = prevYear[1].id
                         /\ e.passed
                         /\ e.assessment_type \in {"module_exam", "term_exam"}}
        IN  IF prevYear = <<>> THEN Granted
            ELSE IF prevTerms = {} THEN Granted
            ELSE IF \E t \in prevTerms :
                       TermExam(t) # <<>> /\ ~HasPassingAttempt(userId, TermExam(t)[1].id)
            THEN Denied("All term examinations in the previous year must be passed before advancing.")
            ELSE IF cumulativeReview # <<>>
                    /\ ~HasPassingAttempt(userId, cumulativeReview[1].id)
            THEN Denied("The cumulative review for the previous year must be passed before advancing.")
            ELSE IF transcriptEntries # {}
                    /\ YearWeightedSum(transcriptEntries)
                          < 70 * 100 * YearTotalWeight(transcriptEntries)
            THEN Denied("Your GPA for the previous year is below the required minimum of 70.")
            ELSE Granted

\* .order("order", { ascending: true }) on a set of rows with distinct orders
RECURSIVE OrderAscending(_)
OrderAscending(rows) ==
    IF rows = {} THEN <<>>
    ELSE LET first == CHOOSE r \in rows : \A q \in rows : r.order <= q.order
         IN  <<first>> \o OrderAscending(rows \ {first})

\* termModules.findIndex((m) => m.id === moduleId), counted from 0; -1 if absent
FindIndex(termModules, moduleId) ==
    IF \E i \in 1..Len(termModules) : termModules[i].id = moduleId
    THEN (CHOOSE i \in 1..Len(termModules) :
             /\ termModules[i].id = moduleId
             /\ \A j \in 1..(i - 1) : termModules[j].id # moduleId) - 1
    ELSE -1

\* canAccessModule satisfied by one completed lesson of the previous module
canAccessModule_AnyLessonCompleted(userId, moduleId) ==
    LET mod == Single({m \in modules : m.id = moduleId})
    IN  IF mod = <<>> THEN Denied("Module not found.")
        ELSE IF mod[1].term_id = NULL THEN Granted
        ELSE
        LET termModules == OrderAscending({m \in modules : m.term_id = mod[1].term_id})
            moduleIndex == FindIndex(termModules, moduleId)
        IN  IF Len(termModules) = 0 THEN Denied("No modules found for this term.")
            ELSE IF termModules[1].id = moduleId THEN Granted
            ELSE IF moduleIndex <= 0 THEN Granted
            ELSE
            LET prevModuleId == termModules[moduleIndex].id
                prevLessons == {l \in lessons : l.module_id = prevModuleId}
                completedCount ==
                    Cardinality({p \in progress :
                                    /\ p.user_id = userId
                                    /\ p.lesson_id \in {l.id : l \in prevLessons}
                                    /\ p.completed})
                moduleExam == Single({a \in assessments :
                                         a.module_id = prevModuleId
                                             /\ a.type = "module_exam"})
            IN  IF prevLessons # {} /\ completedCount < 1
                THEN Denied("All lessons in the previous module must be completed before proceeding.")
                ELSE IF moduleExam # <<>> /\ ~HasPassingAttempt(userId, moduleExam[1].id)
                THEN Denied("You must pass the previous module's examination before proceeding.")
                ELSE Granted

\* canAccessModule(supabase, userId, moduleId)
canAccessModule(userId, moduleId) ==
    LET mod == Single({m \in modules : m.id = moduleId})
    IN  IF mod = <<>> THEN Denied("Module not found.")
        ELSE IF mod[1].term_id = NULL THEN Granted
        ELSE
        LET termModules == OrderAscending({m \in modules : m.term_id = mod[1].term_id})
            moduleIndex == FindIndex(termModules, moduleId)
        IN  IF Len(termModules) = 0 THEN Denied("No modules found for this term.")
            ELSE IF termModules[1].id = moduleId THEN Granted
            ELSE IF moduleIndex <= 0 THEN Granted
            ELSE
            LET prevModuleId == termModules[moduleIndex].id
                prevLessons == {l \in lessons : l.module_id = prevModuleId}
                completedCount ==
                    Cardinality({p \in progress :
                                    /\ p.user_id = userId
                                    /\ p.lesson_id \in {l.id : l \in prevLessons}
                                    /\ p.completed})
                moduleExam == Single({a \in assessments :
                                         a.module_id = prevModuleId
                                             /\ a.type = "module_exam"})
            IN  IF prevLessons # {} /\ completedCount < Cardinality(prevLessons)
                THEN Denied("All lessons in the previous module must be completed before proceeding.")
                ELSE IF moduleExam # <<>> /\ ~HasPassingAttempt(userId, moduleExam[1].id)
                THEN Denied("You must pass the previous module's examination before proceeding.")
                ELSE Granted

\* ---------------------------------------------------------------------------
\* Spec: the tables and the handlers that write them
\* ---------------------------------------------------------------------------
Users == {"u1", "u2"}

\* Content tables.  Quiz k belongs to lesson k and has the two bank questions
\* 2k-1 and 2k, each with one answer flagged is_correct:
\*   quiz1: q1, q2 (both "identification");  quiz2: q3 (no tag), q4 ("centers")
QuizIds == <<"quiz1", "quiz2">>
LessonIds == <<"lesson1", "lesson2">>

quizzes == {[id |-> QuizIds[k], lesson_id |-> LessonIds[k]] : k \in 1..Len(QuizIds)}

QuizBank ==
    [quizId \in {QuizIds[k] : k \in 1..Len(QuizIds)} |->
        LET k == CHOOSE j \in 1..Len(QuizIds) : QuizIds[j] = quizId
        IN  <<2 * k - 1, 2 * k>>]

\* questions of each quiz, ordered by "order"
QuizQuestions ==
    [quizId \in DOMAIN QuizBank |->
        [i \in 1..Len(QuizBank[quizId]) |-> BankQuestion(QuizBank[quizId][i])]]

\* rows of public.answers for the questions of each quiz
QuizAnswerRows ==
    [quizId \in DOMAIN QuizBank |->
        UNION {{BankRight(QuizBank[quizId][i], TRUE), BankWrong(QuizBank[quizId][i])} :
                  i \in 1..Len(QuizBank[quizId])}]

\* The lookup maps the route builds from the answer rows of each quiz
QuizCorrectMap == [quizId \in DOMAIN QuizBank |-> BuildCorrect(QuizAnswerRows[quizId])]

QuizAnswerMap == [quizId \in DOMAIN QuizBank |-> BuildAll(QuizAnswerRows[quizId])]

\* The request body for the student's picks on the questions of the quiz
RECURSIVE BodyAnswers(_, _, _)
BodyAnswers(bank, i, pick) ==
    IF i > Len(bank) THEN <<>>
    ELSE (IF pick[i] = "omit" THEN <<>>
          ELSE <<[question_id |-> QuestionIds[bank[i]],
                  answer_id |-> IF pick[i] = "right" THEN RightIds[bank[i]]
                                ELSE WrongIds[bank[i]]]>>)
         \o BodyAnswers(bank, i + 1, pick)

\* The request bodies a client sends: for each quiz, each way of answering
\* right, answering wrong or leaving out each of its questions
RequestBodies ==
    UNION {{[quiz_id |-> quizId, answers |-> BodyAnswers(QuizBank[quizId], 1, pick)] :
               pick \in [1..Len(QuizBank[quizId]) -> {"right", "wrong", "omit"}]} :
           quizId \in DOMAIN QuizBank}

\* evaluateQuiz({quiz_id, answers}, questions, correctAnswers, allAnswers) as
\* the route calls it, tabulated by request body
QuizResults ==
    [body \in RequestBodies |->
        evaluateQuiz(body, QuizQuestions[body.quiz_id], QuizCorrectMap[body.quiz_id],
                     QuizAnswerMap[body.quiz_id])]

Init ==
    /\ GradeIdle /\ RetryIdle /\ AmbientIdle /\ AuxIdle
    /\ assessmentType = "lesson_check"
    /\ quiz_attempts = {}
    /\ progress = {}
    /\ weak_areas = {}
    /\ assessment_attempts = {}
    /\ termExams \in SUBSET (1..MaxTerm)
    /\ ledgerLog = {}
    /\ response = {}

RequestsHandled == Cardinality(quiz_attempts) + Cardinality(assessment_attempts)

\* The primary key of a new row: the inserting user and the number of the row
\* among that user's rows of the table (rows of one user are ordered by it, as
\* they are by created_at; rows of different users are not ordered)
NewId(rows, user) == <<user, Cardinality({r \in rows : r.user_id = user}) + 1>>

\* progress.upsert(row, {onConflict: "user_id,lesson_id"})
UpsertProgress(rows, row) ==
    {r \in rows : ~(r.user_id = row.user_id /\ r.lesson_id = row.lesson_id)} \cup {row}

\* POST /api/quiz/submit by an authenticated user.  The early returns (401,
\* 400, 404, 500) leave every table unchanged and are the guard.
SubmitQuiz(user, body) ==
    /\ RequestsHandled < MaxRequests
    /\ user \in Users
    /\ Len(body.answers) > 0
    /\ \E quiz \in {q \in quizzes : q.id = body.quiz_id} :
       \E qs \in {QuizQuestions[quiz.id]} :
       \E result \in {QuizResults[body]} :
       \E attemptCount \in {getAttemptCount(quiz_attempts, user, body.quiz_id)} :
       \E retryAction \in {IF result.passed THEN NULL
                           ELSE getRetryAction(attemptCount + 1)} :
       \E incorrectConcepts \in {extractIncorrectConcepts(result)} :
          /\ Len(qs) > 0
          /\ quiz_attempts' = quiz_attempts \cup
                                  {[id |-> NewId(quiz_attempts, user),
                                    user_id |-> user, quiz_id |-> body.quiz_id,
                                    score |-> result.score, passed |-> result.passed]}
          /\ progress' = UpsertProgress(progress,
                                  [user_id |-> user, lesson_id |-> quiz.lesson_id,
                                   completed |-> result.passed,
                                   last_score |-> result.score])
          /\ IF Len(incorrectConcepts) > 0
             THEN /\ weak_areas' = updateWeakAreas(weak_areas, user, incorrectConcepts)
                  /\ ledgerLog' = ledgerLog \cup
                                     {[id |-> NewId(ledgerLog, user),
                                       user_id |-> user,
                                       incorrectConcepts |-> incorrectConcepts]}
             ELSE UNCHANGED <<weak_areas, ledgerLog>>
          /\ response' = response \cup
                             {[id |-> NewId(quiz_attempts, user),
                               score |-> result.score, passed |-> result.passed,
                               total_questions |-> result.total_questions,
                               correct_count |-> result.correct_count,
                               retry_action |-> retryAction,
                               attempt_number |-> attemptCount + 1]}
          /\ UNCHANGED <<assessment_attempts, termExams, ambientVars, gradeVars,
                         retryVars, auxVars>>

\* A term-exam attempt is stored: "Users can insert own assessment attempts"
RecordAssessmentAttempt(user, assessmentId, passed) ==
    /\ RequestsHandled < MaxRequests
    /\ user \in Users
    /\ \E a \in assessments : a.id = assessmentId
    /\ assessment_attempts' = assessment_attempts \cup
                                  {[id |-> NewId(assessment_attempts, user),
                                    user_id |-> user, assessment_id |-> assessmentId,
                                    passed |-> passed]}
    /\ UNCHANGED <<quiz_attempts, progress, weak_areas, termExams, ledgerLog,
                   response, ambientVars, gradeVars, retryVars, auxVars>>

Next ==
    \/ \E user \in Users, body \in RequestBodies : SubmitQuiz(user, body)
    \/ \E user \in Users, k \in 1..MaxTerm, passed \in BOOLEAN :
          RecordAssessmentAttempt(user, ExamIds[k], passed)

Spec == Init /\ [][Next]_vars

\* ---------------------------------------------------------------------------
\* Properties of the ledger and of the term gate (checked under Spec)
\* ---------------------------------------------------------------------------
Tags == {"identification", "centers"}

\* error_count of the (user, tag) row of a weak_areas table, 0 without a row
ErrorCount(rows, user, tag) ==
    LET m == {r \in rows : r.user_id = user /\ r.concept_tag = tag}
    IN  IF m = {} THEN 0 ELSE (CHOOSE r \in m : TRUE).error_count

HasRow(rows, user, tag) == \E r \in rows : r.user_id = user /\ r.concept_tag = tag

\* Number of (tag, question) misses of the tag in a miss list
Misses(incorrectConcepts, tag) ==
    Cardinality({i \in 1..Len(incorrectConcepts) : incorrectConcepts[i].concept_tag = tag})

\* C7: one ledger update for a user increases each missed tag's error_count
\* by exactly the number of misses of that tag in the attempt (creating the
\* row on first miss) and leaves the error_count of every tag not in the miss
\* list, and of every other user, unchanged.
C7_LedgerUpdate ==
    [][\A user \in Users, tag \in Tags :
          LET calls == {c \in ledgerLog' \ ledgerLog : c.user_id = user}
              added == IF calls = {} THEN 0
                       ELSE Misses((CHOOSE c \in calls : TRUE).incorrectConcepts, tag)
          IN  /\ Cardinality(ledgerLog' \ ledgerLog) <= 1
              /\ ErrorCount(weak_areas', user, tag)
                    = ErrorCount(weak_areas, user, tag) + added
              /\ HasRow(weak_areas', user, tag)
                    <=> (HasRow(weak_areas, user, tag) \/ added > 0)
              /\ Cardinality({r \in weak_areas' :
                                 r.user_id = user /\ r.concept_tag = tag}) <= 1]_vars

\* The k-th ledger call of the user
Call(user, k) == CHOOSE c \in ledgerLog : c.id = <<user, k>>

\* C7 witness: a user missed "identification" once, then twice in one attempt
C7_Witness ==
    \E user \in Users :
        /\ Cardinality({c \in ledgerLog : c.user_id = user}) = 2
        /\ Misses(Call(user, 1).incorrectConcepts, "identification") = 1
        /\ Misses(Call(user, 2).incorrectConcepts, "identification") = 2
        /\ ErrorCount(weak_areas, user, "identification") = 3

CallsMissing(user, tag) ==
    {c \in ledgerLog : c.user_id = user /\ Misses(c.incorrectConcepts, tag) > 0}

\* C9: getRequiredReviews returns exactly the user's tags with error_count >= 3;
\* starting from no row, three separate attempts that each miss a tag once
\* leave its error_count at 3 and the tag in the list, and two do not.
C9_RequiredReviews ==
    \A user \in Users :
        /\ getRequiredReviews(weak_areas, user)
              = {tag \in Tags : ErrorCount(weak_areas, user, tag) >= 3}
        /\ \A tag \in Tags :
              (\A c \in CallsMissing(user, tag) : Misses(c.incorrectConcepts, tag) = 1)
              => /\ Cardinality(CallsMissing(user, tag)) = 3
                      => /\ ErrorCount(weak_areas, user, tag) = 3
                         /\ tag \in getRequiredReviews(weak_areas, user)
                 /\ Cardinality(CallsMissing(user, tag)) = 2
                      => /\ ErrorCount(weak_areas, user, tag) = 2
                         /\ tag \notin getRequiredReviews(weak_areas, user)

\* C9 witness: the third single miss of "centers" puts it in the list
C9_Witness ==
    \E user \in Users :
        /\ Cardinality(CallsMissing(user, "centers")) = 3
        /\ \A c \in CallsMissing(user, "centers") :
              Misses(c.incorrectConcepts, "centers") = 1
        /\ getRequiredReviews(weak_areas, user) = {"centers"}

\* The user has a passing attempt for the term exam of the term of order k
PassedTermExam(user, k) ==
    \E a \in assessment_attempts :
        a.user_id = user /\ a.assessment_id = ExamIds[k] /\ a.passed

BlockingTags(user) == {tag \in Tags : ErrorCount(weak_areas, user, tag) >= 3}

\* C10: term #1 is always accessible; a later term T is accessible iff
\* (term T-1 has no term exam or the user has a passing attempt for it) and
\* the user has no weak-area row with error_count >= 3; a user with such a
\* row is denied even with the exam passed, and the reason names every
\* offending concept.
C10_TermGate ==
    \A user \in Users, k \in 1..MaxTerm :
        LET r == canAccessTerm(user, TermIds[k])
            examOk == (k - 1) \notin termExams \/ PassedTermExam(user, k - 1)
        IN  /\ k = 1 => r.accessible
            /\ k > 1 => (r.accessible <=> (examOk /\ BlockingTags(user) = {}))
            /\ (k > 1 /\ examOk /\ BlockingTags(user) # {})
                  => /\ ~r.accessible
                     /\ r.reason # NULL
                     /\ r.concepts = BlockingTags(user)

\* C10 witness: the term exam of term 1 passed, yet term 2 is denied for
\* "identification"
C10_Witness ==
    \E user \in Users :
        /\ 1 \in termExams
        /\ PassedTermExam(user, 1)
        /\ ErrorCount(weak_areas, user, "identification") >= 3
        /\ ~canAccessTerm(user, TermIds[2]).accessible
        /\ canAccessTerm(user, TermIds[2]).concepts = {"identification"}

\* The first module of the term of order k, by "order"
FirstModule(k) ==
    OrderAscending({m \in modules : m.term_id = TermIds[k]})[1].id

\* .order("order", { ascending: false }).limit(1).single(): the row of the
\* greatest order, or no row when there is none
LastByOrder(rows) ==
    IF rows = {} THEN <<>>
    ELSE <<CHOOSE r \in rows : \A q \in rows : q.order <= r.order>>

\* getPreviousLesson(supabase, levelOrder, moduleOrder, lessonOrder): a lesson
\* id or null, as a sequence of length at most one
getPreviousLesson(levelOrder, moduleOrder, lessonOrder) ==
    IF lessonOrder > 1
    THEN LET level == Single({l \in levels : l.order = levelOrder})
             mod == IF level = <<>> THEN <<>>
                    ELSE Single({m \in modules : /\ m.level_id = level[1].id
                                                 /\ m.order = moduleOrder})
             prevLesson == IF mod = <<>> THEN <<>>
                           ELSE Single({l \in lessons : /\ l.module_id = mod[1].id
                                                        /\ l.order = lessonOrder - 1})
         IN  IF prevLesson = <<>> THEN <<>> ELSE <<prevLesson[1].id>>
    ELSE IF moduleOrder > 1
    THEN LET level == Single({l \in levels : l.order = levelOrder})
             prevModule == IF level = <<>> THEN <<>>
                           ELSE Single({m \in modules : /\ m.level_id = level[1].id
                                                        /\ m.order = moduleOrder - 1})
             lastLesson == IF prevModule = <<>> THEN <<>>
                           ELSE LastByOrder({l \in lessons :
                                                l.module_id = prevModule[1].id})
         IN  IF lastLesson = <<>> THEN <<>> ELSE <<lastLesson[1].id>>
    ELSE IF levelOrder > 0
    THEN LET prevLevel == Single({l \in levels : l.order = levelOrder - 1})
             lastModule == IF prevLevel = <<>> THEN <<>>
                           ELSE LastByOrder({m \in modules :
                                                m.level_id = prevLevel[1].id})
             lastLesson == IF lastModule = <<>> THEN <<>>
                           ELSE LastByOrder({l \in lessons :
                                                l.module_id = lastModule[1].id})
         IN  IF lastLesson = <<>> THEN <<>> ELSE <<lastLesson[1].id>>
    ELSE <<>>

\* canAccessLesson with the subscription's period end never looked at
canAccessLesson_NoExpiryCheck(userId, lessonId) ==
    LET lesson == Single({l \in lessons : l.id = lessonId})
    IN  IF lesson = <<>> THEN Denied("Lesson not found.")
        ELSE
        LET module == CHOOSE m \in modules : m.id = lesson[1].module_id
            level == CHOOSE l \in levels : l.id = module.level_id
            levelOrder == level.order
            moduleOrder == module.order
            lessonOrder == lesson[1].order
            subscription == Single({s \in subscriptions : /\ s.user_id = userId
                                                          /\ s.status = "active"})
            previousLesson == getPreviousLesson(levelOrder, moduleOrder, lessonOrder)
            quiz == IF previousLesson = <<>> THEN <<>>
                    ELSE Single({q \in quizzes : q.lesson_id = previousLesson[1]})
        IN  IF levelOrder = 0 /\ moduleOrder = 1 /\ lessonOrder = 1 THEN Granted
            ELSE IF levelOrder > 0 /\ subscription = <<>>
            THEN Denied("An active subscription is required to access this level.")
            ELSE IF previousLesson = <<>> THEN Granted
            ELSE IF quiz = <<>> THEN Granted
            ELSE IF ~\E a \in quiz_attempts : /\ a.user_id = userId
                                              /\ a.quiz_id = quiz[1].id
                                              /\ a.passed
            THEN Denied("You must pass the previous lesson's quiz before accessing this lesson.")
            ELSE Granted

\* canAccessLesson(supabase, userId, lessonId).  The lessons query joins
\* modules and levels with !inner; both foreign keys are NOT NULL.
canAccessLesson(userId, lessonId) ==
    LET lesson == Single({l \in lessons : l.id = lessonId})
    IN  IF lesson = <<>> THEN Denied("Lesson not found.")
        ELSE
        LET module == CHOOSE m \in modules : m.id = lesson[1].module_id
            level == CHOOSE l \in levels : l.id = module.level_id
            levelOrder == level.order
            moduleOrder == module.order
            lessonOrder == lesson[1].order
            subscription == Single({s \in subscriptions : /\ s.user_id = userId
                                                          /\ s.status = "active"})
            previousLesson == getPreviousLesson(levelOrder, moduleOrder, lessonOrder)
            quiz == IF previousLesson = <<>> THEN <<>>
                    ELSE Single({q \in quizzes : q.lesson_id = previousLesson[1]})
        IN  IF levelOrder = 0 /\ moduleOrder = 1 /\ lessonOrder = 1 THEN Granted
            ELSE IF levelOrder > 0 /\ subscription = <<>>
            THEN Denied("An active subscription is required to access this level.")
            ELSE IF /\ levelOrder > 0
                    /\ subscription[1].current_period_end # <<>>
                    /\ subscription[1].current_period_end[1] < now
            THEN Denied("Your subscription has expired.")
            ELSE IF previousLesson = <<>> THEN Granted
            ELSE IF quiz = <<>> THEN Granted
            ELSE IF ~\E a \in quiz_attempts : /\ a.user_id = userId
                                              /\ a.quiz_id = quiz[1].id
                                              /\ a.passed
            THEN Denied("You must pass the previous lesson's quiz before accessing this lesson.")
            ELSE Granted

\* ---------------------------------------------------------------------------
\* SpecAccess: the access checks called on drawn database states
\* ---------------------------------------------------------------------------
\* A check is read-only: its inputs are the tables, the user and the id.  Init
\* draws the tables from rows the writers of each table can leave behind, one
\* family of tables per check, and the call to make; the action makes the call.
NoSuchId == "nowhere"

QuizIdle ==
    /\ quiz_attempts = {} /\ progress = {} /\ weak_areas = {}
    /\ ledgerLog = {} /\ response = {}

\* An assessment_attempts row; one row stands for any number of equal ones
AttemptRow(user, assessmentId, passed) ==
    [id |-> <<user, assessmentId, passed>>, user_id |-> user,
     assessment_id |-> assessmentId, passed |-> passed]

\* The attempts of a user who passed the assessments in passedIds and, when
\* alsoFailed, has a failed attempt at every assessment
AttemptsOf(user, ids, passedIds, alsoFailed) ==
    {AttemptRow(user, a, TRUE) : a \in passedIds}
        \cup (IF alsoFailed THEN {AttemptRow(user, a, FALSE) : a \in ids} ELSE {})

TranscriptRow(user, type, yearId, scope, score, passed) ==
    [user_id |-> user, assessment_type |-> type, year_id |-> yearId,
     scope_id |-> scope, score |-> score, passed |-> passed]

\* Transcripts: none; a term exam passed with 68; the same with a module exam
\* passed with 75 (year GPA 70.33); entries the query filters out, alone and
\* next to the 68: not passed, of another tier, of another user, of another year
TranscriptSamples ==
    LET t68 == TranscriptRow("u1", "term_exam", "year1", "term1", 6800, TRUE)
        m75 == TranscriptRow("u1", "module_exam", "year1", "mod1", 7500, TRUE)
        m60 == TranscriptRow("u1", "module_exam", "year1", "mod2", 6000, FALSE)
        r50 == TranscriptRow("u1", "cumulative_review", "year1", "year1", 5000, TRUE)
        o90 == TranscriptRow("u2", "term_exam", "year1", "term1", 9000, TRUE)
        y95 == TranscriptRow("u1", "term_exam", "year2", "term4", 9500, TRUE)
    IN  {{}, {t68}, {t68, m75}, {m75}, {m60, r50}, {o90, y95},
         {t68, o90, y95}, {t68, m75, m60, r50}}

\* Tables read by canAccessYear for year 2: term exams and the cumulative
\* review of year 1, attempts at them, transcript entries
YearFamily ==
    /\ QuizIdle
    /\ lessons = DenseLessons /\ moduleExams = {} /\ subscriptions = {}
    /\ now = 0
    /\ termExams \in SUBSET (1..MaxTerm)
    /\ yearReviews \in SUBSET {1}
    /\ LET ids == {a.id : a \in assessments}
       IN  \E passedIds \in SUBSET ids, alsoFailed \in BOOLEAN, other \in BOOLEAN :
              assessment_attempts =
                  AttemptsOf("u1", ids, passedIds, alsoFailed)
                      \cup (IF other THEN AttemptsOf("u2", ids, ids, FALSE) ELSE {})
    /\ transcript_entries \in TranscriptSamples
    /\ \E user \in {"u1", "u2"}, id \in {YearIds[k] : k \in 1..3} \cup {NoSuchId} :
          accessResult = <<[check |-> "canAccessYear", user_id |-> user, id |-> id,
                            result |-> <<>>]>>

ProgressRow(user, lessonId, completed) ==
    [user_id |-> user, lesson_id |-> lessonId, completed |-> completed,
     last_score |-> NULL]

\* The progress rows of a user who completed the lessons in done and, when
\* alsoOpen, has a row with completed = false for every other lesson
ProgressOf(user, lessonIds, done, alsoOpen) ==
    {ProgressRow(user, l, TRUE) : l \in done}
        \cup (IF alsoOpen THEN {ProgressRow(user, l, FALSE) : l \in lessonIds \ done}
              ELSE {})

\* Tables read by canAccessModule for the modules of term 1: the lessons of
\* mod1 and mod2, progress on them, the module exams of mod1 and mod2 and
\* attempts at them
ModuleFamily ==
    /\ quiz_attempts = {} /\ weak_areas = {} /\ ledgerLog = {} /\ response = {}
    /\ termExams = {} /\ yearReviews = {}
    /\ transcript_entries = {} /\ subscriptions = {}
    /\ now = 0
    /\ lessons \in LessonTables
    /\ moduleExams \in SUBSET {1, 2}
    /\ LET ids == {a.id : a \in assessments}
           lessonIds == {l.id : l \in {m \in lessons : m.module_id \in {"mod1", "mod2"}}}
       IN  \E done \in SUBSET lessonIds, passedIds \in SUBSET ids,
              alsoOpen \in BOOLEAN, other \in BOOLEAN :
              /\ progress =
                    ProgressOf("u1", lessonIds, done, alsoOpen)
                        \cup (IF other THEN ProgressOf("u2", lessonIds, lessonIds, FALSE)
                              ELSE {})
              /\ assessment_attempts =
                    AttemptsOf("u1", ids, passedIds, alsoOpen)
                        \cup (IF other THEN AttemptsOf("u2", ids, ids, FALSE) ELSE {})
    /\ \E user \in {"u1", "u2"}, id \in {m.id : m \in modules} \cup {NoSuchId} :
          accessResult = <<[check |-> "canAccessModule", user_id |-> user, id |-> id,
                            result |-> <<>>]>>

\* A quiz_attempts row as the submit route inserts it
QuizAttemptRow(user, n, quizId, passed) ==
    [id |-> <<user, n>>, user_id |-> user, quiz_id |-> quizId,
     score |-> IF passed THEN MaxScore ELSE 0, passed |-> passed]

\* The quiz attempts of a user who failed the quizzes in failedIds and then
\* passed the quizzes in passedIds
QuizAttemptsOf(user, failedIds, passedIds) ==
    {QuizAttemptRow(user, k, QuizIds[k], FALSE) :
        k \in {j \in 1..Len(QuizIds) : QuizIds[j] \in failedIds}}
    \cup {QuizAttemptRow(user, Len(QuizIds) + k, QuizIds[k], TRUE) :
             k \in {j \in 1..Len(QuizIds) : QuizIds[j] \in passedIds}}

\* A subscriptions row: the Stripe subscription id is the key the webhook
\* writes under, current_period_end is nullable
SubscriptionRow(id, user, status, periodEnd) ==
    [id |-> id, user_id |-> user, status |-> status, current_period_end |-> periodEnd]

AccessNow == 2

\* Subscription rows of one user around the clock value AccessNow
SubscriptionSamples(user) ==
    {{},
     {SubscriptionRow("sub1", user, "active", <<AccessNow + 1>>)},
     {SubscriptionRow("sub1", user, "active", <<AccessNow>>)},
     {SubscriptionRow("sub1", user, "active", <<AccessNow - 1>>)},
     {SubscriptionRow("sub1", user, "active", <<>>)},
     {SubscriptionRow("sub1", user, "canceled", <<AccessNow + 1>>)},
     {SubscriptionRow("sub1", user, "past_due", <<AccessNow + 1>>),
      SubscriptionRow("sub2", user, "active", <<AccessNow + 1>>)},
     {SubscriptionRow("sub1", user, "active", <<AccessNow + 1>>),
      SubscriptionRow("sub2", user, "active", <<AccessNow + 1>>)}}

\* GET /api/curriculum/lessons?module_id=... by a logged-in user: the status
\* and, for 200, the lessons of the module in "order" with their lock status
ListLessons(userId, moduleId) ==
    LET module == Single({m \in modules : m.id = moduleId})
    IN  IF module = <<>> THEN [status |-> 404, lessons |-> <<>>]
        ELSE
        LET levelOrder == (CHOOSE l \in levels : l.id = module[1].level_id).order
            subscription == Single({s \in subscriptions : /\ s.user_id = userId
                                                          /\ s.status = "active"})
            rows == OrderAscending({l \in lessons : l.module_id = moduleId})
            Quiz(lessonId) == Single({q \in quizzes : q.lesson_id = lessonId})
            Locked(i) ==
                IF levelOrder = 0 /\ module[1].order = 1 /\ rows[i].order = 1 THEN FALSE
                ELSE IF i = 1 THEN FALSE
                ELSE IF Quiz(rows[i - 1].id) = <<>> THEN FALSE
                ELSE ~\E a \in quiz_attempts : /\ a.user_id = userId
                                               /\ a.quiz_id = Quiz(rows[i - 1].id)[1].id
                                               /\ a.passed
            Completed(i) ==
                LET row == Single({p \in progress : /\ p.user_id = userId
                                                    /\ p.lesson_id = rows[i].id})
                IN  IF row = <<>> THEN FALSE ELSE row[1].completed
        IN  IF levelOrder > 0 /\ subscription = <<>>
            THEN [status |-> 403, lessons |-> <<>>]
            ELSE [status |-> 200,
                  lessons |-> [i \in 1..Len(rows) |->
                                  [id |-> rows[i].id, locked |-> Locked(i),
                                   completed |-> Completed(i)]]]

\* Tables read by canAccessLesson and by the lesson listing: lessons, quiz
\* attempts and subscriptions
LessonFamily ==
    /\ progress = {} /\ weak_areas = {} /\ ledgerLog = {} /\ response = {}
    /\ assessment_attempts = {}
    /\ termExams = {} /\ moduleExams = {} /\ yearReviews = {}
    /\ transcript_entries = {}
    /\ now = AccessNow
    /\ lessons \in LessonTables
    /\ LET ids == {q.id : q \in quizzes}
       IN  \E passedIds \in SUBSET ids, failedIds \in SUBSET ids, other \in BOOLEAN :
           \E subs \in SubscriptionSamples("u1") :
              /\ quiz_attempts =
                    QuizAttemptsOf("u1", failedIds, passedIds)
                        \cup (IF other THEN QuizAttemptsOf("u2", {}, ids) ELSE {})
              /\ subscriptions =
                    subs \cup (IF other
                               THEN {SubscriptionRow("sub3", "u2", "active",
                                                     <<AccessNow + 1>>)}
                               ELSE {})
    /\ \/ \E user \in {"u1", "u2"}, id \in {l.id : l \in DenseLessons} \cup {NoSuchId} :
             accessResult = <<[check |-> "canAccessLesson", user_id |-> user, id |-> id,
                               result |-> <<>>]>>
       \/ \E user \in {"u1", "u2"}, id \in {m.id : m \in modules} \cup {NoSuchId} :
             accessResult = <<[check |-> "listLessons", user_id |-> user, id |-> id,
                               result |-> <<>>]>>

\* Tables read by canAccessTerm: term exams, attempts at them and the user's
\* weak_areas rows as updateWeakAreas leaves them; the call is canAccessTerm
\* or canAccessModule on the first module of a term
TermFamily ==
    /\ quiz_attempts = {} /\ progress = {} /\ ledgerLog = {} /\ response = {}
    /\ lessons = DenseLessons /\ moduleExams = {} /\ yearReviews = {}
    /\ transcript_entries = {} /\ subscriptions = {}
    /\ now = 0
    /\ termExams \in SUBSET (1..MaxTerm)
    /\ LET ids == {a.id : a \in assessments}
       IN  \E passedIds \in SUBSET ids, alsoFailed \in BOOLEAN :
              assessment_attempts = AttemptsOf("u1", ids, passedIds, alsoFailed)
    /\ \E counts \in [Tags -> {0, 2, 3}] :
          weak_areas = {[user_id |-> "u1", concept_tag |-> tag,
                         error_count |-> counts[tag]] :
                            tag \in {t \in Tags : counts[t] > 0}}
    /\ \/ \E user \in {"u1", "u2"},
             id \in {TermIds[k] : k \in 1..(MaxTerm + 1)} \cup {NoSuchId} :
             accessResult = <<[check |-> "canAccessTerm", user_id |-> user, id |-> id,
                               result |-> <<>>]>>
       \/ \E user \in {"u1", "u2"}, k \in 1..2 :
             accessResult = <<[check |-> "canAccessModule", user_id |-> user,
                               id |-> FirstModule(k), result |-> <<>>]>>

InitAccess ==
    /\ GradeIdle
    /\ previousAttempts = <<>> /\ retryResult = <<>>
    /\ gpaEntries = <<>> /\ gpaOut = <<>>
    /\ inflight = [r \in Requests |-> [pc |-> "idle"]]
    /\ assessmentType = "lesson_check"
    /\ \/ YearFamily
       \/ ModuleFamily
       \/ LessonFamily
       \/ TermFamily

Pending(check) ==
    /\ accessResult # <<>>
    /\ accessResult[1].check = check
    /\ accessResult[1].result = <<>>

CallCanAccessYear ==
    /\ Pending("canAccessYear")
    /\ accessResult' = <<[accessResult[1] EXCEPT
                            !.result = <<canAccessYear(accessResult[1].user_id,
                                                       accessResult[1].id)>>]>>
    /\ UNCHANGED <<gradeVars, retryVars, dbVars, gpaEntries, gpaOut, inflight>>

CallCanAccessModule ==
    /\ Pending("canAccessModule")
    /\ accessResult' = <<[accessResult[1] EXCEPT
                            !.result = <<canAccessModule(accessResult[1].user_id,
                                                         accessResult[1].id)>>]>>
    /\ UNCHANGED <<gradeVars, retryVars, dbVars, gpaEntries, gpaOut, inflight>>

CallCanAccessLesson ==
    /\ Pending("canAccessLesson")
    /\ accessResult' = <<[accessResult[1] EXCEPT
                            !.result = <<canAccessLesson(accessResult[1].user_id,
                                                         accessResult[1].id)>>]>>
    /\ UNCHANGED <<gradeVars, retryVars, dbVars, gpaEntries, gpaOut, inflight>>

CallCanAccessTerm ==
    /\ Pending("canAccessTerm")
    /\ accessResult' = <<[accessResult[1] EXCEPT
                            !.result = <<canAccessTerm(accessResult[1].user_id,
                                                       accessResult[1].id)>>]>>
    /\ UNCHANGED <<gradeVars, retryVars, dbVars, gpaEntries, gpaOut, inflight>>

CallListLessons ==
    /\ Pending("listLessons")
    /\ accessResult' = <<[accessResult[1] EXCEPT
                            !.result = <<ListLessons(accessResult[1].user_id,
                                                     accessResult[1].id)>>]>>
    /\ UNCHANGED <<gradeVars, retryVars, dbVars, gpaEntries, gpaOut, inflight>>

NextAccess ==
    \/ CallCanAccessYear
    \/ CallCanAccessModule
    \/ CallCanAccessLesson
    \/ CallCanAccessTerm
    \/ CallListLessons

SpecAccess == InitAccess /\ [][NextAccess]_vars

\* The call made and what it returned
Returned(check) ==
    /\ accessResult # <<>>
    /\ accessResult[1].check = check
    /\ accessResult[1].result # <<>>

\* The year of order k - 1 has no term exam the user has not passed
TermExamsPassed(user, k) ==
    \A t \in 1..Len(TermIds) :
        (YearOfTerm[t] = k - 1 /\ t \in termExams) => HasPassingAttempt(user, ExamIds[t])

ReviewPassed(user, k) ==
    (k - 1) \in yearReviews => HasPassingAttempt(user, ReviewIds[k - 1])

\* The passed module_exam and term_exam transcript entries of the user for
\* the year of order k
GpaEntries(user, k) ==
    {e \in transcript_entries :
        /\ e.user_id = user /\ e.year_id = YearIds[k] /\ e.passed
        /\ e.assessment_type \in {"module_exam", "term_exam"}}

\* The year GPA exists and is at least 70
GpaSatisfied(user, k) ==
    /\ GpaEntries(user, k) # {}
    /\ YearWeightedSum(GpaEntries(user, k))
          >= 70 * 100 * YearTotalWeight(GpaEntries(user, k))

\* C11: year #1 is always accessible; a later year Y is accessible iff every
\* term exam of year Y-1 and its cumulative review (if defined) have a passing
\* attempt by the user and the GPA of year Y-1 over the passed module_exam
\* (weight 1) and term_exam (weight 2) entries is at least 70; a user without
\* such entries does not satisfy the GPA condition.
C11_YearGate ==
    Returned("canAccessYear") =>
        \A k \in 1..3 :
            accessResult[1].id = YearIds[k] =>
                LET user == accessResult[1].user_id
                    r == accessResult[1].result[1]
                IN  /\ k = 1 => r.accessible
                    /\ k > 1 => (r.accessible <=> /\ TermExamsPassed(user, k)
                                                  /\ ReviewPassed(user, k)
                                                  /\ GpaSatisfied(user, k - 1))

\* Module number k > 1 of term 1 is preceded in its term by module k - 1
PrecedingLessons(k) == {l.id : l \in {m \in lessons : m.module_id = ModuleIds[k - 1]}}

LessonCompleted(user, lessonId) ==
    \E p \in progress : p.user_id = user /\ p.lesson_id = lessonId /\ p.completed

\* C13: a module that is not first in its term is accessible iff every lesson
\* of the immediately preceding module of the term has a completed progress
\* record for the user and, when the preceding module has a module exam, the
\* user has a passing attempt for that exam.
C13_LaterModuleGate ==
    Returned("canAccessModule") =>
        \A k \in 2..3 :
            accessResult[1].id = ModuleIds[k] =>
                LET user == accessResult[1].user_id
                IN  accessResult[1].result[1].accessible
                        <=> /\ \A l \in PrecedingLessons(k) : LessonCompleted(user, l)
                            /\ (k - 1) \in moduleExams
                                  => HasPassingAttempt(user, ModuleExamIds[k - 1])

\* C13 witness: mod2 is granted to a user who completed the three lessons of
\* mod1 and passed its module exam, while mod2's own lesson is not completed
C13_Witness ==
    /\ Returned("canAccessModule")
    /\ accessResult[1].id = "mod2"
    /\ accessResult[1].result[1].accessible
    /\ 1 \in moduleExams
    /\ Cardinality(PrecedingLessons(2)) = 3
    /\ ~LessonCompleted(accessResult[1].user_id, "lessonB")

\* The position of a lesson in the total order of the curriculum: level
\* order, then module order, then lesson order
Position(lesson) ==
    LET module == CHOOSE m \in modules : m.id = lesson.module_id
        level == CHOOSE l \in levels : l.id = module.level_id
    IN  <<level.order, module.order, lesson.order>>

Before(p, q) ==
    \/ p[1] < q[1]
    \/ p[1] = q[1] /\ p[2] < q[2]
    \/ p[1] = q[1] /\ p[2] = q[2] /\ p[3] < q[3]

\* The lessons that immediately precede a lesson in the total order: one
\* lesson, or none for the first lesson of the curriculum
Predecessors(lesson) ==
    {p \in lessons :
        /\ Before(Position(p), Position(lesson))
        /\ ~\E q \in lessons : /\ Before(Position(p), Position(q))
                               /\ Before(Position(q), Position(lesson))}

\* The predecessor has no quiz or the user has a passed attempt at its quiz
Resolved(user, lesson) ==
    \A q \in {z \in quizzes : z.lesson_id = lesson.id} :
        \E a \in quiz_attempts : a.user_id = user /\ a.quiz_id = q.id /\ a.passed

\* An active subscription of the user whose period end is not in the past
SubscriptionPermits(user) ==
    \E sub \in subscriptions :
        /\ sub.user_id = user
        /\ sub.status = "active"
        /\ sub.current_period_end # <<>> => sub.current_period_end[1] >= now

\* C14: the first lesson of the curriculum is always accessible; any other
\* free lesson is accessible iff its immediate predecessor in the total order
\* exists and has no quiz or a passed attempt by the user, and a paid lesson
\* is accessible only if that holds: no lesson other than the first is
\* accessible without a resolved predecessor.
C14_LessonGate ==
    Returned("canAccessLesson") =>
        \A lesson \in {l \in lessons : l.id = accessResult[1].id} :
            LET user == accessResult[1].user_id
                accessible == accessResult[1].result[1].accessible
                resolved == \E p \in Predecessors(lesson) : Resolved(user, p)
            IN  IF Predecessors(lesson) = {} THEN accessible
                ELSE /\ accessible => resolved
                     /\ Position(lesson)[1] = 0 => (accessible <=> resolved)

\* ---------------------------------------------------------------------------
\* SpecSub: the Stripe webhook, the clock and canAccessLesson on paid lessons
\* ---------------------------------------------------------------------------
SubIds == {"sub1", "sub2"}

SubStatuses == {"active", "past_due", "canceled"}

PeriodEnds == {24 * day : day \in 1..MaxSubDays}

PaidLessons ==
    {l.id : l \in {m \in DenseLessons : Position(m)[1] > 0}}

InitSub ==
    /\ GradeIdle /\ RetryIdle
    /\ assessmentType = "lesson_check"
    /\ progress = {} /\ weak_areas = {} /\ ledgerLog = {} /\ response = {}
    /\ assessment_attempts = {} /\ termExams = {}
    /\ AmbientIdle /\ AuxIdle
    /\ \E passedIds \in {{}, {q.id : q \in quizzes}} :
          quiz_attempts = QuizAttemptsOf("u1", {}, passedIds)

\* checkout.session.completed: upsert on conflict stripe_subscription_id
CheckoutSessionCompleted(userId, subscriptionId, status, periodEnd) ==
    /\ subscriptions' =
          {r \in subscriptions : r.id # subscriptionId}
              \cup {SubscriptionRow(subscriptionId, userId, status, <<periodEnd>>)}
    /\ UNCHANGED <<gradeVars, retryVars, quiz_attempts, progress, weak_areas,
                   assessment_attempts, termExams, ledgerLog, response, lessons,
                   moduleExams, yearReviews, transcript_entries, auxVars>>

\* customer.subscription.updated: status and period end of the row, if any
CustomerSubscriptionUpdated(subscriptionId, status, periodEnd) ==
    /\ subscriptions' =
          {IF r.id = subscriptionId
           THEN [r EXCEPT !.status = status, !.current_period_end = <<periodEnd>>]
           ELSE r : r \in subscriptions}
    /\ UNCHANGED <<gradeVars, retryVars, quiz_attempts, progress, weak_areas,
                   assessment_attempts, termExams, ledgerLog, response, lessons,
                   moduleExams, yearReviews, transcript_entries, auxVars>>

\* customer.subscription.deleted: the row, if any, becomes canceled
CustomerSubscriptionDeleted(subscriptionId) ==
    /\ subscriptions' =
          {IF r.id = subscriptionId THEN [r EXCEPT !.status = "canceled"] ELSE r :
              r \in subscriptions}
    /\ UNCHANGED <<gradeVars, retryVars, quiz_attempts, progress, weak_areas,
                   assessment_attempts, termExams, ledgerLog, response, lessons,
                   moduleExams, yearReviews, transcript_entries, auxVars>>

\* A day passes
SubTick ==
    /\ now < MaxSubDays * 24
    /\ now' = now + 24
    /\ UNCHANGED <<previousAttempts, retryResult, gradeVars, dbVars, auxVars>>

\* canAccessLesson is called; accessResult keeps this call and the one before
CheckLessonAccess(userId, lessonId) ==
    /\ accessResult' =
          <<[check |-> "canAccessLesson", user_id |-> userId, id |-> lessonId,
             result |-> <<canAccessLesson(userId, lessonId)>>]>>
              \o (IF accessResult = <<>> THEN <<>> ELSE <<accessResult[1]>>)
    /\ UNCHANGED <<gradeVars, retryVars, dbVars, gpaEntries, gpaOut, inflight>>

NextSub ==
    \/ \E userId \in Users, subscriptionId \in SubIds, status \in SubStatuses,
          periodEnd \in PeriodEnds :
          CheckoutSessionCompleted(userId, subscriptionId, status, periodEnd)
    \/ \E subscriptionId \in SubIds, status \in SubStatuses, periodEnd \in PeriodEnds :
          CustomerSubscriptionUpdated(subscriptionId, status, periodEnd)
    \/ \E subscriptionId \in SubIds : CustomerSubscriptionDeleted(subscriptionId)
    \/ SubTick
    \/ \E lessonId \in PaidLessons : CheckLessonAccess("u1", lessonId)

SpecSub == InitSub /\ [][NextSub]_vars

\* C15: whenever canAccessLesson is called on a lesson of a level of order
\* above 0 and answers accessible, the user has at that moment a subscription
\* of status active whose period end is not in the past, whatever quiz
\* attempts the user has; so a call made after the subscription was canceled
\* or its period ended is denied.
C15_PaidNeedsSubscription ==
    [][(accessResult' # accessResult /\ accessResult' # <<>>) =>
          ((/\ accessResult'[1].id \in PaidLessons
            /\ accessResult'[1].result[1].accessible)
              => SubscriptionPermits(accessResult'[1].user_id))]_vars

\* C15 witness: u1, who passed every quiz, was granted a paid lesson and is
\* denied the same lesson by the next call, with no permitting subscription
C15_Witness ==
    /\ Len(accessResult) = 2
    /\ accessResult[1].id \in PaidLessons
    /\ accessResult[2].id = accessResult[1].id
    /\ accessResult[2].result[1].accessible
    /\ ~accessResult[1].result[1].accessible
    /\ ~SubscriptionPermits("u1")
    /\ \A q \in quizzes : \E a \in quiz_attempts : a.user_id = "u1" /\ a.quiz_id = q.id /\ a.passed

\* ---------------------------------------------------------------------------
\* SpecGPA: computeGPA on drawn entry lists
\* ---------------------------------------------------------------------------
\* The weights record of computeGPA, doubled so that 0.5 is an integer; the
\* quotient weightedSum / totalWeight is the same for doubled weights
GpaWeights2 ==
    [t \in AssessmentTypes |->
        CASE t = "lesson_check" -> 0
          [] t = "module_exam" -> 2
          [] t = "term_exam" -> 4
          [] t = "cumulative_review" -> 1]

\* The for loop of computeGPA from entry i on: <<weightedSum, totalWeight>>
RECURSIVE GpaLoop(_, _, _, _, _)
GpaLoop(weights, entries, i, weightedSum, totalWeight) ==
    IF i > Len(entries) THEN <<weightedSum, totalWeight>>
    ELSE LET w == weights[entries[i].assessment_type]
         IN  IF w = 0 THEN GpaLoop(weights, entries, i + 1, weightedSum, totalWeight)
             ELSE GpaLoop(weights, entries, i + 1,
                          weightedSum + entries[i].score * w, totalWeight + w)

\* computeGPA with lesson checks weighted like module exams
computeGPA_LessonCheckCounted(entries) ==
    LET sums == GpaLoop([GpaWeights2 EXCEPT !["lesson_check"] = 2], entries, 1, 0, 0)
    IN  IF sums[2] = 0 THEN <<>>
        ELSE <<MathRound(sums[1], sums[2])>>

\* computeGPA(entries): null is <<>>, a GPA g is <<g>> in hundredths
computeGPA(entries) ==
    LET sums == GpaLoop(GpaWeights2, entries, 1, 0, 0)
    IN  IF sums[2] = 0 THEN <<>>
        ELSE <<MathRound(sums[1], sums[2])>>

GpaScores == {0, 7000, 8000, 9000}

GradeEntries == [assessment_type : AssessmentTypes, score : GpaScores]

InitGPA ==
    /\ GradeIdle /\ RetryIdle /\ DbIdle
    /\ assessmentType = "lesson_check"
    /\ accessResult = <<>>
    /\ inflight = [r \in Requests |-> [pc |-> "idle"]]
    /\ gpaOut = <<>>
    /\ \E n \in 0..MaxGpaEntries : gpaEntries \in [1..n -> GradeEntries]

CallComputeGPA ==
    /\ gpaOut = <<>>
    /\ gpaOut' = <<computeGPA(gpaEntries)>>
    /\ UNCHANGED <<gradeVars, retryVars, dbVars, accessResult, gpaEntries, inflight>>

NextGPA == CallComputeGPA

SpecGPA == InitGPA /\ [][NextGPA]_vars

\* The entries that count: every type but lesson_check
Counted(entries) == {i \in 1..Len(entries) : entries[i].assessment_type # "lesson_check"}

\* Four times the stated weight: 1.0, 2.0 and 0.5
Credit4(type) ==
    CASE type = "module_exam" -> 4
      [] type = "term_exam" -> 8
      [] type = "cumulative_review" -> 2
      [] OTHER -> 0

RECURSIVE SumOver(_, _, _)
SumOver(entries, idx, scored) ==
    IF idx = {} THEN 0
    ELSE LET i == CHOOSE j \in idx : TRUE
         IN  Credit4(entries[i].assessment_type)
                 * (IF scored THEN entries[i].score ELSE 1)
             + SumOver(entries, idx \ {i}, scored)

WithoutLessonChecks(entries) ==
    SelectSeq(entries, LAMBDA e : e.assessment_type # "lesson_check")

\* C16: computeGPA returns the weighted mean of the scores with weights 1.0
\* (module_exam), 2.0 (term_exam) and 0.5 (cumulative_review) rounded to two
\* decimals; lesson_check entries do not change the result; the result is
\* null exactly when no entry has a non-zero weight; [(module_exam, 80)]
\* gives 80 and [(module_exam, 80), (term_exam, 90)] gives 86.67.
C16_ComputeGPA ==
    gpaOut # <<>> =>
        /\ gpaOut[1] = <<>> <=> Counted(gpaEntries) = {}
        /\ gpaOut[1] # <<>> =>
              gpaOut[1][1] = MathRound(SumOver(gpaEntries, Counted(gpaEntries), TRUE),
                                       SumOver(gpaEntries, Counted(gpaEntries), FALSE))
        /\ gpaOut[1] = computeGPA(WithoutLessonChecks(gpaEntries))
        /\ gpaEntries = <<[assessment_type |-> "module_exam", score |-> 8000]>>
              => gpaOut[1] = <<8000>>
        /\ gpaEntries = <<[assessment_type |-> "module_exam", score |-> 8000],
                          [assessment_type |-> "term_exam", score |-> 9000]>>
              => gpaOut[1] = <<8667>>

\* C16 witness: the second example with a lesson check between its entries
C16_Witness ==
    /\ gpaEntries = <<[assessment_type |-> "module_exam", score |-> 8000],
                      [assessment_type |-> "lesson_check", score |-> 0],
                      [assessment_type |-> "term_exam", score |-> 9000]>>
    /\ gpaOut = <<<<8667>>>>

\* ---------------------------------------------------------------------------
\* SpecSteps: the submit route, one awaited statement at a time
\* ---------------------------------------------------------------------------
\* Every await of the handler is a point where another request can run.  The
\* reads of quizzes, questions and answers return the fixed content and are
\* folded into Receive together with the synchronous evaluateQuiz.
StepBodies == {body \in RequestBodies : Len(body.answers) = Len(QuizBank[body.quiz_id])}

InitSteps ==
    /\ GradeIdle /\ RetryIdle /\ DbIdle /\ AuxIdle
    /\ assessmentType = "lesson_check"

StepUnchanged == <<gradeVars, retryVars, accessResult, gpaEntries, gpaOut>>

\* POST up to evaluateQuiz: body validation, the quiz and its questions
Receive(r, user, body) ==
    /\ inflight[r].pc = "idle"
    /\ Len(body.answers) > 0
    /\ \E quiz \in quizzes : quiz.id = body.quiz_id
    /\ Len(QuizQuestions[body.quiz_id]) > 0
    /\ inflight' = [inflight EXCEPT ![r] =
                      [pc |-> "count", user |-> user, body |-> body,
                       attemptCount |-> 0, attemptId |-> <<>>, i |-> 1,
                       existing |-> <<>>, writes |-> 0]]
    /\ UNCHANGED <<dbVars, StepUnchanged>>

\* const attemptCount = await getAttemptCount(supabase, user.id, quiz_id)
StepGetAttemptCount(r) ==
    /\ inflight[r].pc = "count"
    /\ inflight' = [inflight EXCEPT
                      ![r].pc = "insert",
                      ![r].attemptCount =
                          getAttemptCount(quiz_attempts, inflight[r].user,
                                          inflight[r].body.quiz_id)]
    /\ UNCHANGED <<dbVars, StepUnchanged>>

\* await supabase.from("quiz_attempts").insert(...)
StepInsertAttempt(r) ==
    /\ inflight[r].pc = "insert"
    /\ \E result \in {QuizResults[inflight[r].body]} :
       \E id \in {NewId(quiz_attempts, inflight[r].user)} :
          /\ quiz_attempts' = quiz_attempts \cup
                {[id |-> id, user_id |-> inflight[r].user,
                  quiz_id |-> inflight[r].body.quiz_id,
                  score |-> result.score, passed |-> result.passed]}
          /\ inflight' = [inflight EXCEPT ![r].pc = "progress",
                                          ![r].attemptId = <<id>>,
                                          ![r].writes = @ + 1]
    /\ UNCHANGED <<progress, weak_areas, assessment_attempts, termExams, ledgerLog,
                   response, ambientVars, StepUnchanged>>

\* await supabase.from("progress").upsert(...), then extractIncorrectConcepts
StepUpsertProgress(r) ==
    /\ inflight[r].pc = "progress"
    /\ \E result \in {QuizResults[inflight[r].body]} :
       \E quiz \in {q \in quizzes : q.id = inflight[r].body.quiz_id} :
          /\ progress' = UpsertProgress(progress,
                            [user_id |-> inflight[r].user, lesson_id |-> quiz.lesson_id,
                             completed |-> result.passed, last_score |-> result.score])
          /\ inflight' = [inflight EXCEPT
                            ![r].pc = IF Len(extractIncorrectConcepts(result)) > 0
                                      THEN "select" ELSE "respond",
                            ![r].writes = @ + 1]
    /\ UNCHANGED <<quiz_attempts, weak_areas, assessment_attempts, termExams, ledgerLog,
                   response, ambientVars, StepUnchanged>>

\* updateWeakAreas, loop body: const { data: existing } = await ... .single()
StepSelectWeakArea(r) ==
    /\ inflight[r].pc = "select"
    /\ \E incorrectConcepts \in {extractIncorrectConcepts(QuizResults[inflight[r].body])} :
       \E tag \in {UniqueTags(incorrectConcepts, 1, <<>>)[inflight[r].i]} :
          inflight' = [inflight EXCEPT
                         ![r].pc = "write",
                         ![r].existing =
                             Single({w \in weak_areas : /\ w.user_id = inflight[r].user
                                                        /\ w.concept_tag = tag})]
    /\ UNCHANGED <<dbVars, StepUnchanged>>

\* updateWeakAreas, loop body: the update by id of the row read, or the
\* insert, which UNIQUE (user_id, concept_tag) rejects when a row exists
StepWriteWeakArea(r) ==
    /\ inflight[r].pc = "write"
    /\ \E incorrectConcepts \in {extractIncorrectConcepts(QuizResults[inflight[r].body])} :
       \E uniqueTags \in {UniqueTags(incorrectConcepts, 1, <<>>)} :
       \E tag \in {uniqueTags[inflight[r].i]} :
       \E errorCount \in {Len(SelectSeq(incorrectConcepts,
                                        LAMBDA c : c.concept_tag = tag))} :
          /\ weak_areas' =
                IF inflight[r].existing # <<>>
                THEN {IF w.user_id = inflight[r].user /\ w.concept_tag = tag
                      THEN [w EXCEPT !.error_count =
                                        inflight[r].existing[1].error_count + errorCount]
                      ELSE w : w \in weak_areas}
                ELSE IF \E w \in weak_areas : /\ w.user_id = inflight[r].user
                                              /\ w.concept_tag = tag
                THEN weak_areas
                ELSE weak_areas \cup {[user_id |-> inflight[r].user, concept_tag |-> tag,
                                       error_count |-> errorCount]}
          /\ inflight' = [inflight EXCEPT
                            ![r].pc = IF inflight[r].i < Len(uniqueTags)
                                      THEN "select" ELSE "respond",
                            ![r].i = @ + 1,
                            ![r].existing = <<>>,
                            ![r].writes = @ + 1]
    /\ UNCHANGED <<quiz_attempts, progress, assessment_attempts, termExams, ledgerLog,
                   response, ambientVars, StepUnchanged>>

\* return NextResponse.json({ result, retry_action, attempt_number })
StepRespond(r) ==
    /\ inflight[r].pc = "respond"
    /\ \E result \in {QuizResults[inflight[r].body]} :
          response' = response \cup
              {[id |-> inflight[r].attemptId[1],
                score |-> result.score, passed |-> result.passed,
                total_questions |-> result.total_questions,
                correct_count |-> result.correct_count,
                retry_action |-> IF result.passed THEN NULL
                                 ELSE getRetryAction(inflight[r].attemptCount + 1),
                attempt_number |-> inflight[r].attemptCount + 1]}
    /\ inflight' = [inflight EXCEPT ![r].pc = "done"]
    /\ UNCHANGED <<quiz_attempts, progress, weak_areas, assessment_attempts, termExams,
                   ledgerLog, ambientVars, StepUnchanged>>

NextSteps ==
    \/ \E r \in Requests, user \in Users, body \in StepBodies : Receive(r, user, body)
    \/ \E r \in Requests : StepGetAttemptCount(r)
    \/ \E r \in Requests : StepInsertAttempt(r)
    \/ \E r \in Requests : StepUpsertProgress(r)
    \/ \E r \in Requests : StepSelectWeakArea(r)
    \/ \E r \in Requests : StepWriteWeakArea(r)
    \/ \E r \in Requests : StepRespond(r)

SpecSteps == InitSteps /\ [][NextSteps]_vars

\* The attempt row a request inserted is in the table
AttemptPersisted(r) ==
    /\ inflight[r].attemptId # <<>>
    /\ \E a \in quiz_attempts : a.id = inflight[r].attemptId[1]

\* C17: the steps of one submission occur in the order grade, persist the
\* attempt, update the progress record, update the ledger: a request that has
\* reached the progress or ledger update has its attempt row persisted, one
\* that has reached the ledger has written its progress record, and every
\* read of a request is made before its first write.
C17_OneUnit ==
    \A r \in Requests :
        /\ inflight[r].pc \in {"progress", "select", "write", "respond", "done"}
              => AttemptPersisted(r)
        /\ inflight[r].pc \in {"select", "write", "respond", "done"}
              => \E p \in progress : p.user_id = inflight[r].user
        /\ inflight[r].pc \in {"count", "select"} => inflight[r].writes = 0

\* The responses given for one user and quiz
ResponsesFor(user, quizId) ==
    {x \in response : \E a \in quiz_attempts : /\ a.id = x.id
                                               /\ a.user_id = user
                                               /\ a.quiz_id = quizId}

\* C18: for every user and quiz the attempt numbers returned by the submit
\* route are pairwise distinct and gapless, also when the handling of two
\* submissions interleaves: n responses carry the numbers 1..n.
C18_AttemptNumbers ==
    \A user \in Users, quizId \in DOMAIN QuizBank :
        LET given == ResponsesFor(user, quizId)
        IN  /\ \A x, y \in given : x # y => x.attempt_number # y.attempt_number
            /\ {x.attempt_number : x \in given} = 1..Cardinality(given)

\* ---------------------------------------------------------------------------
\* Retry actions after a failed attempt
\* ---------------------------------------------------------------------------
\* getInstitutionalRetryAction(assessmentType, attemptNumber, weakConcepts):
\* the type, the cooldown_hours and the modules_to_review of the action, an
\* absent field being <<>>
getInstitutionalRetryAction(type, attemptNumber, weakConcepts) ==
    IF type = "module_exam"
    THEN IF attemptNumber <= 2
         THEN [type |-> "retry", cooldown_hours |-> <<24>>, modules_to_review |-> <<>>]
         ELSE [type |-> "module_review", cooldown_hours |-> <<>>,
               modules_to_review |-> <<weakConcepts>>]
    ELSE IF type = "term_exam"
    THEN IF attemptNumber <= 1
         THEN [type |-> "retry", cooldown_hours |-> <<48>>, modules_to_review |-> <<>>]
         ELSE [type |-> "term_review", cooldown_hours |-> <<>>,
               modules_to_review |-> <<>>]
    ELSE [type |-> "module_review", cooldown_hours |-> <<>>,
          modules_to_review |-> <<weakConcepts>>]

AttemptNumbers == 0..(MaxRequests + 2)

WeakConceptLists == {<<>>, <<"centers">>, <<"identification", "centers">>}

\* C19: the retry action after a failure is determined by the tier and the
\* attempt number: lesson_check gives retry up to attempt 1, revisit_lesson at
\* attempt 2 and review_required from attempt 3; module_exam gives retry with
\* a 24 hour cooldown up to attempt 2 and module_review from attempt 3;
\* term_exam gives retry with a 48 hour cooldown up to attempt 1 and
\* term_review from attempt 2; cumulative_review always gives module_review.
\* The submit route returns a retry action exactly when the submission failed,
\* and it is the lesson_check action of the attempt number it returns.
C19_RetryActions ==
    /\ \A x \in response :
          /\ x.retry_action = NULL <=> x.passed
          /\ ~x.passed =>
                x.retry_action =
                    (CASE x.attempt_number <= 1 -> "retry"
                       [] x.attempt_number = 2 -> "revisit_lesson"
                       [] x.attempt_number >= 3 -> "review_required")
    /\ \A n \in AttemptNumbers, weakConcepts \in WeakConceptLists :
          /\ getInstitutionalRetryAction("module_exam", n, weakConcepts).type
                = IF n <= 2 THEN "retry" ELSE "module_review"
          /\ getInstitutionalRetryAction("module_exam", n, weakConcepts).cooldown_hours
                = IF n <= 2 THEN <<24>> ELSE <<>>
          /\ getInstitutionalRetryAction("term_exam", n, weakConcepts).type
                = IF n <= 1 THEN "retry" ELSE "term_review"
          /\ getInstitutionalRetryAction("term_exam", n, weakConcepts).cooldown_hours
                = IF n <= 1 THEN <<48>> ELSE <<>>
          /\ getInstitutionalRetryAction("cumulative_review", n, weakConcepts).type
                = "module_review"

\* C19 witness: one user was answered retry, revisit_lesson and
\* review_required for a first, second and third failure
C19_Witness ==
    \E user \in Users :
        /\ \E x \in response : /\ x.id = <<user, 1>> /\ x.retry_action = "retry"
        /\ \E x \in response : /\ x.id = <<user, 2>> /\ x.retry_action = "revisit_lesson"
        /\ \E x \in response : /\ x.id = <<user, 3>> /\ x.retry_action = "review_required"

\* ---------------------------------------------------------------------------
\* Denials of the access checks
\* ---------------------------------------------------------------------------
AccessChecks == {"canAccessLesson", "canAccessModule", "canAccessTerm", "canAccessYear"}

\* The row the check looks up by id exists
TargetExists(check, id) ==
    CASE check = "canAccessLesson" -> \E l \in lessons : l.id = id
      [] check = "canAccessModule" -> \E m \in modules : m.id = id
      [] check = "canAccessTerm" -> \E t \in terms : t.id = id
      [] check = "canAccessYear" -> \E y \in years : y.id = id

\* C20: every access check that denies returns accessible = false together
\* with a non-empty reason, and a check of a lesson, module, term or year that
\* does not exist returns such a denial.
C20_Denials ==
    \A check \in AccessChecks :
        Returned(check) =>
            LET r == accessResult[1].result[1]
            IN  /\ r.accessible \in BOOLEAN
                /\ ~r.accessible => (r.reason # NULL /\ r.reason # "")
                /\ r.accessible => r.reason = NULL
                /\ ~TargetExists(check, accessResult[1].id) => ~r.accessible

\* C20 witness: a lesson that was deleted from the table is denied with a reason
C20_Witness ==
    /\ Returned("canAccessLesson")
    /\ accessResult[1].id = "lessonA"
    /\ ~TargetExists("canAccessLesson", "lessonA")
    /\ ~accessResult[1].result[1].accessible
    /\ accessResult[1].result[1].reason = "Lesson not found."

\* C12: canAccessModule for the first module of a term returns the same
\* accessibility as canAccessTerm for that term: when the term is not
\* accessible to the user, its first module is not accessible either.
C12_FirstModuleInheritsTerm ==
    Returned("canAccessModule") =>
        \A k \in 1..2 :
            accessResult[1].id = FirstModule(k) =>
                accessResult[1].result[1].accessible
                    = canAccessTerm(accessResult[1].user_id, TermIds[k]).accessible

\* ---------------------------------------------------------------------------
\* Feedback entries (checked under SpecGrade)
\* ---------------------------------------------------------------------------
\* The submission holds an answer for the question
Answered(questionId) ==
    \E j \in 1..Len(submission.answers) : submission.answers[j].question_id = questionId

\* C21: a question with no submitted answer is graded incorrect with
\* selected_answer_id = "" and explanation = null; an explanation is non-null
\* only when the selected answer is wrong and carries explanation text, and it
\* is then the text of the selected answer.
C21_Explanations ==
    \A r \in GradedResults :
        \A k \in 1..Len(r.feedback) :
            LET f == r.feedback[k]
            IN  /\ ~Answered(f.question_id) =>
                      /\ ~f.correct
                      /\ f.selected_answer_id = ""
                      /\ f.explanation = NULL
                /\ f.explanation # NULL =>
                      /\ ~f.correct
                      /\ f.selected_answer_id # f.correct_answer_id
                      /\ f.selected_answer_id \in DOMAIN allAnswers
                      /\ allAnswers[f.selected_answer_id].explanation # NULL
                      /\ f.explanation = allAnswers[f.selected_answer_id].explanation

\* C21 witness: one result with an unanswered question, a wrong pick that
\* carries an explanation and a correct pick whose answer has explanation text
C21_Witness ==
    \E r \in GradedResults :
        /\ \E k \in 1..Len(r.feedback) :
              ~Answered(r.feedback[k].question_id) /\ r.feedback[k].explanation = NULL
        /\ \E k \in 1..Len(r.feedback) :
              ~r.feedback[k].correct /\ r.feedback[k].explanation = "why this is wrong"
        /\ \E k \in 1..Len(r.feedback) :
              /\ r.feedback[k].correct
              /\ allAnswers[r.feedback[k].selected_answer_id].explanation # NULL
              /\ r.feedback[k].explanation = NULL

\* ---------------------------------------------------------------------------
\* Order of the history (checked under SpecRetry)
\* ---------------------------------------------------------------------------
\* The history with the attempts at positions i and j exchanged
Swapped(attempts, i, j) ==
    [k \in 1..Len(attempts) |->
        IF k = i THEN attempts[j] ELSE IF k = j THEN attempts[i] ELSE attempts[k]]

\* C22: the result of checkRetryEligibility, canRetry and nextRetryAt, does
\* not depend on the order in which the prior attempts are supplied:
\* exchanging any two attempts of the history leaves it unchanged.  Every
\* order of a history is reachable by RecordAttempt, and every permutation is
\* a product of exchanges.
C22_OrderIndependent ==
    \A k \in 1..Len(retryResult) :
        \A i, j \in 1..Len(previousAttempts) :
            i < j =>
                checkRetryEligibility(assessmentType, Swapped(previousAttempts, i, j), now)
                    = retryResult[k]

\* C22 witness: a denial computed from a history of three attempts on three
\* different days that is supplied neither oldest first nor latest first
C22_Witness ==
    /\ retryResult # <<>> /\ ~retryResult[1].canRetry
    /\ Len(previousAttempts) = 3
    /\ previousAttempts[2].created_at < previousAttempts[1].created_at
    /\ previousAttempts[2].created_at < previousAttempts[3].created_at
    /\ previousAttempts[1].created_at # previousAttempts[3].created_at

\* ---------------------------------------------------------------------------
\* The promised time of the next attempt (checked under SpecRetry)
\* ---------------------------------------------------------------------------
\* Clock values at and after a promised time
AtAndAfter(t) == {t, t + 1, t + 24, t + 48}

\* C24: when checkRetryEligibility answers not eligible with nextRetryAt = T
\* and no further attempt is recorded, the evaluator answers eligible when
\* called with the same history at time T and at every later time.
C24_PromiseKept ==
    \A k \in 1..Len(retryResult) :
        ~retryResult[k].canRetry =>
            \A t \in AtAndAfter(retryResult[k].nextRetryAt[1]) :
                checkRetryEligibility(assessmentType, previousAttempts, t).canRetry

\* ---------------------------------------------------------------------------
\* DashboardView: the review list
\* ---------------------------------------------------------------------------
\* const requiredReviews = weakAreas.filter((w) => w.error_count >= 3)
DashboardRequiredReviews(weakAreas) == {w \in weakAreas : w.error_count >= 3}

\* The concepts of the review list rendered with "blocks progression"
DashboardBlocksProgression(weakAreas) ==
    {area.concept_tag :
        area \in {w \in DashboardRequiredReviews(weakAreas) : w.error_count >= 5}}

\* The weakAreas prop of a user's dashboard: the user's weak_areas rows
WeakAreasOf(user) == {w \in weak_areas : w.user_id = user}

\* C23: the concepts the review list shows as blocking progression are the
\* concepts that make canAccessTerm deny a later term: for a user whom the
\* term exam does not hold back, the concepts term 2 is denied for are the
\* concepts flagged on the dashboard.
C23_BlockingShown ==
    \A user \in Users :
        (1 \notin termExams \/ PassedTermExam(user, 1)) =>
            DashboardBlocksProgression(WeakAreasOf(user))
                = canAccessTerm(user, TermIds[2]).concepts

\* ---------------------------------------------------------------------------
\* Retry eligibility inside a graded result (checked under SpecGrade)
\* ---------------------------------------------------------------------------
\* The history after the caller stored the graded attempt with created_at = now
HistoryAfterAttempt == Append(previousAttempts, [created_at |-> now])

\* C25: when evaluateAssessment returns can_retry = true the submission
\* failed, and checkRetryEligibility on the history with this attempt
\* appended, at the same time, also reports eligible; a passed result never
\* reports can_retry = true.
C25_RetryAgreesWithGate ==
    \A k \in 1..Len(assessmentResult) :
        /\ assessmentResult[k].passed => ~assessmentResult[k].can_retry
        /\ assessmentResult[k].can_retry =>
              /\ ~assessmentResult[k].passed
              /\ checkRetryEligibility(assessmentType, HistoryAfterAttempt, now).canRetry

\* ---------------------------------------------------------------------------
\* The ledger under interleaved submissions (checked under SpecSteps)
\* ---------------------------------------------------------------------------
\* Misses of the tag by the user in the submissions of the requests rs
RECURSIVE MissesBy(_, _, _)
MissesBy(rs, user, tag) ==
    IF rs = {} THEN 0
    ELSE LET r == CHOOSE q \in rs : TRUE
         IN  (IF inflight[r].pc # "idle" /\ inflight[r].user = user
              THEN Misses(extractIncorrectConcepts(QuizResults[inflight[r].body]), tag)
              ELSE 0)
             + MissesBy(rs \ {r}, user, tag)

\* C26: once all submissions have completed, however their handling
\* interleaved, the error_count of every tag of every user is the total
\* number of misses of that tag across the user's submissions.
C26_NoLostIncrement ==
    (\A r \in Requests : inflight[r].pc = "done") =>
        \A user \in Users, tag \in Tags :
            ErrorCount(weak_areas, user, tag) = MissesBy(Requests, user, tag)

\* ---------------------------------------------------------------------------
\* SpecProgress: quiz submissions and the progress route of one user
\* ---------------------------------------------------------------------------
InitProgress ==
    /\ GradeIdle /\ RetryIdle /\ DbIdle /\ AuxIdle
    /\ assessmentType = "lesson_check"

\* POST /api/progress with body { lesson_id, completed, last_score }: upsert
\* on conflict (user_id, lesson_id); lesson_id references public.lessons
PostProgress(user, lesson_id, completed, last_score) ==
    /\ lesson_id # NULL
    /\ \E l \in lessons : l.id = lesson_id
    /\ progress' = UpsertProgress(progress,
                      [user_id |-> user, lesson_id |-> lesson_id,
                       completed |-> completed, last_score |-> last_score])
    /\ UNCHANGED <<quiz_attempts, weak_areas, assessment_attempts, termExams, ledgerLog,
                   response, ambientVars, gradeVars, retryVars, auxVars>>

\* The bodies the student sends to the two routes
ProgressLessons == {l.id : l \in {m \in DenseLessons : m.module_id = "mod1"}}

QuizOneBodies == {body \in RequestBodies : body.quiz_id = "quiz1"}

NextProgress ==
    \/ \E body \in QuizOneBodies : SubmitQuiz("u1", body)
    \/ \E lesson_id \in ProgressLessons, completed \in BOOLEAN :
          PostProgress("u1", lesson_id, completed, MaxScore)

SpecProgress == InitProgress /\ [][NextProgress]_vars

\* The user has a stored attempt with passed = true for the quiz
PassedQuiz(user, quizId) ==
    \E a \in quiz_attempts : a.user_id = user /\ a.quiz_id = quizId /\ a.passed

\* C27: earned progress does not regress through quiz submissions: a lesson
\* whose quiz the user has passed and whose progress record is completed
\* stays completed, and a module canAccessModule grants stays granted, over
\* every later submission of the user.
C27_NoRegression ==
    [][(quiz_attempts' # quiz_attempts) =>
          \A user \in Users :
              /\ \A q \in quizzes :
                    (PassedQuiz(user, q.id) /\ LessonCompleted(user, q.lesson_id))
                        => LessonCompleted(user, q.lesson_id)'
              /\ \A m \in modules :
                    canAccessModule(user, m.id).accessible
                        => canAccessModule(user, m.id).accessible']_vars

\* C28: a progress record with completed = true for a lesson that has a quiz
\* implies a stored attempt of the same user with passed = true for that quiz.
C28_CompletedNeedsPass ==
    \A p \in progress :
        p.completed =>
            \A q \in {z \in quizzes : z.lesson_id = p.lesson_id} :
                PassedQuiz(p.user_id, q.id)

\* ---------------------------------------------------------------------------
\* The lesson listing against the access-time gate (checked under SpecAccess)
\* ---------------------------------------------------------------------------
\* The lessons of the module have the orders 1..n
OrdersDense(moduleId) ==
    LET rows == {l \in lessons : l.module_id = moduleId}
    IN  {l.order : l \in rows} = 1..Cardinality(rows)

\* The subscription check of canAccessLesson holds for the user: exactly one
\* active row, its period end not in the past
PassesSubscriptionCheck(user) ==
    /\ Cardinality({sub \in subscriptions : sub.user_id = user /\ sub.status = "active"}) = 1
    /\ SubscriptionPermits(user)

\* C30: for a logged-in user who passes the subscription check and a module
\* whose lesson orders are 1..n, a lesson the listing reports as unlocked is
\* one canAccessLesson grants, and a lesson it reports as locked is one
\* canAccessLesson denies.
C30_ListingAgrees ==
    (/\ Returned("listLessons")
     /\ accessResult[1].result[1].status = 200
     /\ OrdersDense(accessResult[1].id)
     /\ PassesSubscriptionCheck(accessResult[1].user_id)) =>
        \A i \in 1..Len(accessResult[1].result[1].lessons) :
            LET listed == accessResult[1].result[1].lessons[i]
            IN  listed.locked
                    = ~canAccessLesson(accessResult[1].user_id, listed.id).accessible

\* ---------------------------------------------------------------------------
\* Weak-area blocking over later submissions (checked under SpecOverlap: one
\* submission handled on its own, then two handlings that may interleave)
\* ---------------------------------------------------------------------------
\* POST /api/quiz/submit handled from request to response with no other
\* request in between, before the overlapping requests arrive
EarlierSubmission ==
    /\ \A r \in Requests : inflight[r].pc = "idle"
    /\ quiz_attempts = {}
    /\ \E body \in StepBodies : SubmitQuiz("u1", body)

NextOverlap ==
    \/ EarlierSubmission
    \/ NextSteps

SpecOverlap == InitSteps /\ [][NextOverlap]_vars

\* The terms canAccessTerm gates: order above 1, with a predecessor
GatedTerms == {t \in terms : /\ t.order > 1
                             /\ \E prev \in terms : prev.order = t.order - 1}

\* C29: once a user has a weak-area row with error_count >= 3, the row stays
\* blocking and canAccessTerm denies the user every term of order > 1 that has
\* a predecessor, after every further step of a submission.
C29_BlockingPermanent ==
    [][\A user \in Users :
          (\E w \in weak_areas : w.user_id = user /\ w.error_count >= 3) =>
              /\ \E w \in weak_areas' : w.user_id = user /\ w.error_count >= 3
              /\ \A t \in GatedTerms : ~canAccessTerm(user, t.id).accessible']_vars

====
